---- MODULE Spec2Model ----
(***************************************************************************)
(* Model of the claim orchestration of polytools (claim.py), together with *)
(* the position source it consumes (positions.py).                          *)
(*                                                                          *)
(* Python values are modelled as follows.                                   *)
(*   - a float is an integer (the model never divides);                     *)
(*   - an Optional[int] is a set with at most one element, {} being None;   *)
(*   - an optional string is a string, None being the string "None";        *)
(*   - a dict with insertion order (the groups) is a sequence of            *)
(*     [condition_id, positions] records with pairwise distinct keys;       *)
(*   - a list is a sequence.                                                *)
(***************************************************************************)
EXTENDS Integers, Sequences, FiniteSets, TLC

\* ---------------------------------------------------------------- bounds
\* longest response of the Data API in the orchestration specification
MaxPositions == 3
\* longest response of the Data API in the builder specification
MaxRecords == 3

\* ------------------------------------------------------------- constants
GWEI == 1000000000
None == "None"

\* ------------------------------------------------------- Python helpers
\* the element of a non-None Optional[int]
Val(s) == CHOOSE x \in s : TRUE

\* truth value of an optional string: None and "" are falsy
TruthyStr(s) == s # None /\ s # ""

\* truth value of an Optional[int]: None and 0 are falsy
TruthyInt(s) == s # {} /\ s # {0}

\* a or b, on optional strings
OrStr(a, b) == IF TruthyStr(a) THEN a ELSE b

\* a or b, on Optional[int]
OrInt(a, b) == IF TruthyInt(a) THEN a ELSE b

\* float(x) if x is not None else 0.0
FloatOrZero(s) == IF s # {} THEN Val(s) ELSE 0

\* ------------------------------------------------- positions.py: parsing
\* One item of the JSON list returned by GET /positions.  isdict = FALSE is
\* an item that is not a JSON object.
ApiItem(cid, size, value, red, neg, oi) ==
    [isdict |-> TRUE, title |-> "Q", outcome |-> "Yes", size |-> size,
     avgPrice |-> {1}, currentValue |-> value, conditionId |-> cid,
     condition_id |-> None, asset |-> "T", redeemable |-> red,
     negativeRisk |-> neg, outcomeIndex |-> oi, outcome_index |-> {}]

NonDictItem ==
    [isdict |-> FALSE, title |-> None, outcome |-> None, size |-> {},
     avgPrice |-> {}, currentValue |-> {}, conditionId |-> None,
     condition_id |-> None, asset |-> None, redeemable |-> FALSE,
     negativeRisk |-> FALSE, outcomeIndex |-> {}, outcome_index |-> {}]

\* outcome_index_raw = item.get("outcomeIndex") or item.get("outcome_index")
OutcomeIndexRaw(item) == OrInt(item.outcomeIndex, item.outcome_index)

\* _parse_position_item followed by Position.to_dict
ParsePositionItem(item) ==
    [isdict |-> TRUE,
     market_question |-> OrStr(item.title, ""),
     outcome |-> OrStr(item.outcome, ""),
     quantity |-> FloatOrZero(item.size),
     avg_price |-> FloatOrZero(item.avgPrice),
     current_value |-> FloatOrZero(item.currentValue),
     condition_id |-> OrStr(item.conditionId, item.condition_id),
     asset |-> item.asset,
     redeemable |-> item.redeemable,
     negative_risk |-> item.negativeRisk,
     outcome_index |-> OutcomeIndexRaw(item)]

\* the loop of get_all_positions over the decoded JSON list
RECURSIVE ParseAll(_)
ParseAll(data) ==
    IF data = <<>> THEN <<>>
    ELSE IF ~Head(data).isdict THEN ParseAll(Tail(data))
    ELSE <<ParsePositionItem(Head(data))>> \o ParseAll(Tail(data))

\* The Data API's behaviour: fail = "none" is a 200 response carrying the
\* JSON list data; every other value is a way get_all_positions raises
\* PolymarketAPIError.
ApiFailures == {"request", "status", "json", "notlist"}

GetAllPositionsRaises(api) == api.fail \in ApiFailures

GetAllPositions(api) == ParseAll(api.data)

\* --------------------------------------------- claim.py: ClaimablePosition
\* condition_id = data.get("condition_id") or data.get("conditionId"); the
\* dicts of get_all_positions have no key conditionId
FromDictConditionId(data) == OrStr(data.condition_id, None)

\* from_dict raises ValueError
FromDictRaises(data) == ~TruthyStr(FromDictConditionId(data))

FromDict(data) ==
    [market_question |-> data.market_question,
     outcome |-> data.outcome,
     quantity |-> data.quantity,
     current_value |-> data.current_value,
     condition_id |-> FromDictConditionId(data),
     asset |-> data.asset,
     negative_risk |-> data.negative_risk,
     outcome_index |-> data.outcome_index]

to_summary_dict(p) ==
    [market_question |-> p.market_question,
     outcome |-> p.outcome,
     quantity |-> p.quantity,
     current_value |-> p.current_value,
     condition_id |-> p.condition_id,
     asset |-> p.asset,
     negative_risk |-> p.negative_risk,
     outcome_index |-> p.outcome_index]

\* ------------------------------ claim.py: _collect_redeemable_positions
\* if pos.quantity <= 0: continue
QuantitySkippedLt(pos) == pos.quantity < 0

QuantitySkipped(pos) == pos.quantity <= 0

\* if not item.get("redeemable"): continue
NotRedeemable(item) == ~item.redeemable

\* the record passes every filter of the loop body
Kept(item) ==
    /\ item.isdict
    /\ ~NotRedeemable(item)
    /\ ~FromDictRaises(item)
    /\ ~QuantitySkipped(FromDict(item))

\* the loop over raw_positions, from the accumulators of its first lines
RECURSIVE CollectLoop(_, _, _)
CollectLoop(raw_positions, redeemable, total_value) ==
    IF raw_positions = <<>>
    THEN [redeemable |-> redeemable, total_value |-> total_value]
    ELSE LET item == Head(raw_positions)
             rest == Tail(raw_positions)
         IN  IF Kept(item)
             THEN CollectLoop(rest, Append(redeemable, FromDict(item)),
                              total_value + FromDict(item).current_value)
             ELSE CollectLoop(rest, redeemable, total_value)

CollectRedeemablePositions(api) == CollectLoop(GetAllPositions(api), <<>>, 0)

\* ---------------------------------------- claim.py: _group_by_condition
HasKey(grouped, cid) == \E i \in DOMAIN grouped : grouped[i].condition_id = cid

\* grouped.setdefault(pos.condition_id, []).append(pos), with one group per
\* position
SetDefaultAppendFresh(grouped, pos) ==
    Append(grouped, [condition_id |-> pos.condition_id, positions |-> <<pos>>])

\* grouped.setdefault(pos.condition_id, []).append(pos)
SetDefaultAppend(grouped, pos) ==
    IF HasKey(grouped, pos.condition_id)
    THEN [i \in DOMAIN grouped |->
            IF grouped[i].condition_id = pos.condition_id
            THEN [grouped[i] EXCEPT !.positions = Append(@, pos)]
            ELSE grouped[i]]
    ELSE Append(grouped, [condition_id |-> pos.condition_id, positions |-> <<pos>>])

RECURSIVE GroupLoop(_, _)
GroupLoop(positions, grouped) ==
    IF positions = <<>> THEN grouped
    ELSE GroupLoop(Tail(positions), SetDefaultAppend(grouped, Head(positions)))

GroupByCondition(positions) == GroupLoop(positions, <<>>)

\* ------------------------------------- claim.py: the two settlement paths
\* the quantity assigned instead of added
RECURSIVE AmountsAssigned(_, _)
AmountsAssigned(positions, amounts) ==
    IF positions = <<>> THEN amounts
    ELSE LET pos == Head(positions)
         IN  IF pos.outcome_index # {} /\ Val(pos.outcome_index) \in {0, 1}
             THEN AmountsAssigned(Tail(positions),
                          [amounts EXCEPT ![Val(pos.outcome_index) + 1] = pos.quantity])
             ELSE AmountsAssigned(Tail(positions), amounts)

\* amounts = [0.0, 0.0]; amounts[i] += quantity for outcome_index in (0, 1)
RECURSIVE Amounts(_, _)
Amounts(positions, amounts) ==
    IF positions = <<>> THEN amounts
    ELSE LET pos == Head(positions)
         IN  IF pos.outcome_index # {} /\ Val(pos.outcome_index) \in {0, 1}
             THEN Amounts(Tail(positions),
                          [amounts EXCEPT ![Val(pos.outcome_index) + 1] = @ + pos.quantity])
             ELSE Amounts(Tail(positions), amounts)

\* neg_risk = any(p.negative_risk for p in positions)
NegRisk(positions) == \E i \in DOMAIN positions : positions[i].negative_risk

\* the index plus one taken for the bit
Shl1Succ(i) == i + 1

\* 1 << index
Shl1(i) == 2 ^ i

\* index_sets, before sorting
IndexSets(positions) ==
    LET s == {Shl1(Val(positions[i].outcome_index)) :
                i \in {j \in DOMAIN positions :
                         /\ positions[j].outcome_index # {}
                         /\ Val(positions[j].outcome_index) >= 0}}
    IN  IF s = {} THEN {1, 2} ELSE s

\* sorted(index_sets)
RECURSIVE Sorted(_)
Sorted(s) ==
    IF s = {} THEN <<>>
    ELSE LET m == CHOOSE x \in s : \A y \in s : x <= y
         IN  <<m>> \o Sorted(s \ {m})

\* max_price_wei = int(max_gas_price_gwei) * 10**9
MaxPriceWei(max_gas_price_gwei) == Val(max_gas_price_gwei) * GWEI

\* the comparison of the admission check, without the equal case
OverCeilingGeq(gas_price, max_gas_price_gwei) ==
    /\ max_gas_price_gwei # {}
    /\ gas_price >= MaxPriceWei(max_gas_price_gwei)

\* max_gas_price_gwei is not None and gas_price > max_price_wei
OverCeiling(gas_price, max_gas_price_gwei) ==
    /\ max_gas_price_gwei # {}
    /\ gas_price > MaxPriceWei(max_gas_price_gwei)

\* no condition taken as handled
HandledConditionsNone(success) == {}

\* handled_conditions = {entry["condition_id"] for entry in gasless_success}
HandledConditions(success) == {success[i].condition_id : i \in DOMAIN success}

\* the groups whose key is handled, in order
RECURSIVE RemainingHandled(_, _)
RemainingHandled(grp, handled) ==
    IF grp = <<>> THEN <<>>
    ELSE IF Head(grp).condition_id \in handled
         THEN <<Head(grp)>> \o RemainingHandled(Tail(grp), handled)
         ELSE RemainingHandled(Tail(grp), handled)

\* remaining_for_onchain: the groups whose key is not handled, in order
RECURSIVE Remaining(_, _)
Remaining(grp, handled) ==
    IF grp = <<>> THEN <<>>
    ELSE IF Head(grp).condition_id \notin handled
         THEN <<Head(grp)>> \o Remaining(Tail(grp), handled)
         ELSE Remaining(Tail(grp), handled)

\* ------------------------------------------------------ result entries
Entry(cid, mode, result, tx_hash, error) ==
    [condition_id |-> cid, mode |-> mode, result |-> result,
     tx_hash |-> tx_hash, error |-> error]

GasCeilingError == "gas price exceeds max_gas_price_gwei"
StatusError == "status != 1"

\* one external call, as the collaborator sees it; raised tells that the
\* call ended with an exception, status is the receipt's status when the
\* call returned a receipt
CallRec(op, cid, nonce, price, amounts, neg, index_sets) ==
    [op |-> op, condition_id |-> cid, nonce |-> nonce, gasPrice |-> price,
     gas |-> {}, amounts |-> amounts, neg_risk |-> neg,
     index_sets |-> index_sets, raised |-> FALSE, status |-> {}]

SimpleCall(op, cid) == CallRec(op, cid, {}, {}, <<>>, FALSE, <<>>)

Failing(call) == [call EXCEPT !.raised = TRUE]

NoResult ==
    [kind |-> "none", exc |-> None, keys |-> {}, success |-> <<>>,
     failed |-> <<>>, total_amount |-> 0, pending |-> <<>>]

\* a returned dict with the keys success, failed and total_amount
Report(success, failed, total) ==
    [kind |-> "return", exc |-> None,
     keys |-> {"success", "failed", "total_amount"},
     success |-> success, failed |-> failed, total_amount |-> total,
     pending |-> <<>>]

\* a returned dict that also has the key pending
ReportWithPending(success, failed, total, pending) ==
    [Report(success, failed, total) EXCEPT
        !.keys = @ \cup {"pending"}, !.pending = pending]

Raised(exc) == [NoResult EXCEPT !.kind = "raise", !.exc = exc]

\* get_usdc_balance has neither returned nor raised
NoBalanceResult ==
    [kind |-> "none", exc |-> None, address |-> None, network |-> None,
     chain_id |-> 0, usdc_contract |-> None, symbol |-> None,
     decimals |-> 0, raw_balance |-> 0, balance |-> [num |-> 0, den |-> 1]]

\* fetch_active_markets has neither returned nor raised
NoFetchResult == [kind |-> "none", exc |-> None, value |-> <<>>]

\* ------------------------------------------------------------ the state
VARIABLES
    pc,                     \* position of the run in claim_all_winnings
    user_address,           \* argument
    private_key,            \* argument
    api,                    \* the Data API's behaviour for this address
    dry_run,                \* argument
    fallback_rpc_url,       \* argument: None, "" or a URL
    max_gas_price_gwei,     \* argument: Optional[int]
    redeemable_positions,   \* local of claim_all_winnings
    total_value,            \* local of claim_all_winnings
    grouped,                \* local of claim_all_winnings
    gasless_success,        \* success list of the gasless driver
    gasless_failed,         \* failed list of the gasless driver
    gasless_error,          \* None, or the text of the driver's RuntimeError
    remaining_for_onchain,  \* local of claim_all_winnings
    onchain_success,        \* success list inside _claim_via_onchain_web3
    onchain_failed,         \* failed list inside _claim_via_onchain_web3
    all_success,            \* local of claim_all_winnings
    all_failed,             \* local of claim_all_winnings
    idx,                    \* index of the group the running loop is at
    nonce,                  \* local of _claim_via_onchain_web3
    initial_nonce,          \* what get_transaction_count returned
    gas_price,              \* local of _claim_via_onchain_web3
    calls,                  \* the external calls made so far, in order
    result,                 \* what claim_all_winnings returned or raised
    offset,                 \* local of fetch_active_markets
    iteration,              \* iterations of its loop over range(MAX_PAGES) begun
    all_markets,            \* local of fetch_active_markets
    seen_ids,               \* local of fetch_active_markets
    len_data,               \* len(data) of the page received last
    new_items,              \* local of fetch_active_markets
    requests,               \* the params of the requests sent, in order
    fetch_result,           \* what fetch_active_markets returned or raised
    balance_address,        \* argument address of get_usdc_balance
    network,                \* argument network of get_usdc_balance
    explicit_rpc_url,       \* argument rpc_url of get_usdc_balance
    env_url,                \* os.getenv of the network's variable, "" if unset
    cfg,                    \* local of get_usdc_balance: the network's name
    resolved_rpc_url,       \* local of get_usdc_balance
    w3,                     \* local: None, or the URL of the connected client
    candidates,             \* local of get_usdc_balance
    candidate_idx,          \* index of the candidate the loop is at
    last_error,             \* local of get_usdc_balance
    probes,                 \* the is_connected calls made, in order
    balance_result,         \* what get_usdc_balance returned or raised
    first_run               \* what an earlier run of the builder returned

\* the state of fetch_active_markets
fetch_vars ==
    <<offset, iteration, all_markets, seen_ids, len_data, new_items,
      requests, fetch_result>>

\* the state of get_usdc_balance
balance_vars ==
    <<balance_address, network, explicit_rpc_url, env_url, cfg,
      resolved_rpc_url, w3, candidates, candidate_idx, last_error, probes,
      balance_result>>

\* the state of claim_all_winnings but its position and its result
claim_vars ==
    <<user_address, private_key, api, dry_run, fallback_rpc_url,
      max_gas_price_gwei,
      redeemable_positions, total_value, grouped, gasless_success,
      gasless_failed, gasless_error, remaining_for_onchain, onchain_success,
      onchain_failed, all_success, all_failed, idx, nonce, initial_nonce,
      gas_price, calls>>

vars ==
    <<pc, user_address, private_key, api, dry_run, fallback_rpc_url,
      max_gas_price_gwei,
      redeemable_positions, total_value, grouped, gasless_success,
      gasless_failed, gasless_error, remaining_for_onchain, onchain_success,
      onchain_failed, all_success, all_failed, idx, nonce, initial_nonce,
      gas_price, calls, result, fetch_vars, balance_vars, first_run>>

\* ------------------------------------------------------------ the inputs
\* the spec's example: M1 with outcome indices 0 and 1, a non-redeemable M2
\* position, and a second redeemable market
OrchestrationItems ==
    { ApiItem("M1", {3}, {3}, TRUE, FALSE, {0}),
      ApiItem("M1", {4}, {4}, TRUE, FALSE, {1}),
      ApiItem("M2", {5}, {5}, FALSE, FALSE, {1}),
      ApiItem("M3", {2}, {7}, TRUE, TRUE, {2}) }

\* records of every kind the builder filters on
BuilderItems ==
    { NonDictItem,
      ApiItem("A", {0}, {5}, TRUE, FALSE, {1}),
      ApiItem("B", {2}, {7}, TRUE, FALSE, {}),
      ApiItem("A", {3}, {3}, TRUE, FALSE, {0}),
      ApiItem("A", {4}, {4}, TRUE, TRUE, {1}),
      ApiItem("B", {2}, {6}, FALSE, FALSE, {1}),
      ApiItem(None, {2}, {9}, TRUE, FALSE, {1}),
      ApiItem("", {1}, {8}, TRUE, FALSE, {0}),
      ApiItem("A", {-1}, {2}, TRUE, FALSE, {2}),
      ApiItem("B", {}, {1}, TRUE, FALSE, {1}) }

SeqsUpTo(S, n) == UNION {[1..k -> S] : k \in 0..n}

ApiOk(data) == [fail |-> "none", data |-> data]

ApiFail(f) == [fail |-> f, data |-> <<>>]

UserAddresses == {"valid", "invalid"}
PrivateKeys == {"key", " "}
RpcUrls == {None, "", "rpc"}
GasCeilings == {{}, {1}}
GasPrices == {GWEI - 1, GWEI, GWEI + 1}
InitialNonces == {5}

\* get_usdc_balance is not called
BalanceArgs0 ==
    /\ balance_address = None
    /\ network = None
    /\ explicit_rpc_url = None
    /\ env_url = ""

\* the locals of the settlement part of claim_all_winnings, its drivers,
\* and the two other functions, before they run
Settlement0 ==
    /\ gasless_success = <<>>
    /\ gasless_failed = <<>>
    /\ gasless_error = None
    /\ remaining_for_onchain = <<>>
    /\ onchain_success = <<>>
    /\ onchain_failed = <<>>
    /\ all_success = <<>>
    /\ all_failed = <<>>
    /\ idx = 0
    /\ nonce = 0
    /\ initial_nonce = 0
    /\ gas_price = 0
    /\ calls = <<>>
    /\ result = NoResult
    /\ offset = 0
    /\ iteration = 0
    /\ all_markets = <<>>
    /\ seen_ids = {}
    /\ len_data = 0
    /\ new_items = 0
    /\ requests = <<>>
    /\ fetch_result = NoFetchResult
    /\ cfg = None
    /\ resolved_rpc_url = None
    /\ w3 = None
    /\ candidates = <<>>
    /\ candidate_idx = 0
    /\ last_error = None
    /\ probes = <<>>
    /\ balance_result = NoBalanceResult
    /\ first_run = <<>>

Locals0 ==
    /\ user_address = None
    /\ private_key = None
    /\ dry_run = TRUE
    /\ fallback_rpc_url = None
    /\ max_gas_price_gwei = {}
    /\ redeemable_positions = <<>>
    /\ total_value = 0
    /\ grouped = <<>>
    /\ Settlement0

Init ==
    /\ pc = "call"
    /\ BalanceArgs0
    /\ api \in {ApiOk(d) : d \in SeqsUpTo(OrchestrationItems, MaxPositions)}
               \cup {ApiFail(f) : f \in ApiFailures}
    /\ Locals0

\* ------------------------------------------------- claim_all_winnings
\* is_valid_evm_address(_normalize_address(user_address))
IsValidEvmAddress(address) == address = "valid"

\* the early check of the key, left out
NormalizePrivateKeyRaisesNever(key) == FALSE

\* _normalize_private_key raises ValueError on a blank key
NormalizePrivateKeyRaises(key) == key = " "

\* entry and early validation
Validate ==
    /\ pc = "call"
    /\ \E address \in UserAddresses, key \in PrivateKeys,
          dr \in BOOLEAN, rpc \in RpcUrls, cap \in GasCeilings :
        /\ user_address' = address
        /\ private_key' = key
        /\ dry_run' = dr
        /\ fallback_rpc_url' = rpc
        /\ max_gas_price_gwei' = cap
        /\ IF ~IsValidEvmAddress(address)
           THEN /\ result' = Raised("InvalidAddressError")
                /\ pc' = "done"
           ELSE IF NormalizePrivateKeyRaises(key)
           THEN /\ result' = Raised("ValueError")
                /\ pc' = "done"
           ELSE /\ result' = result
                /\ pc' = "collect"
    /\ UNCHANGED <<fetch_vars, balance_vars, first_run>>
    /\ UNCHANGED <<api, redeemable_positions, total_value, grouped,
                   gasless_success, gasless_failed, gasless_error,
                   remaining_for_onchain, onchain_success, onchain_failed,
                   all_success, all_failed, idx, nonce, initial_nonce,
                   gas_price, calls>>

\* the fetch error swallowed into an empty report
DataApiErrorReportEmpty(fail) == Report(<<>>, <<>>, 0)

\* the dict returned when the position fetch raises PolymarketAPIError
DataApiErrorReport(fail) ==
    Report(<<>>, <<Entry(None, "data-api", None, {}, fail)>>, 0)

\* nothing redeemable reported as a failure
NothingReportFailed ==
    Report(<<>>, <<Entry(None, "data-api", None, {}, "no positions")>>, 0)

\* the dict returned when nothing is redeemable
NothingReport == Report(<<>>, <<>>, 0)

\* the position fetch and the filter, and the two returns that follow it
CollectPositions ==
    /\ pc = "collect"
    /\ calls' = Append(calls,
           IF GetAllPositionsRaises(api)
           THEN Failing(SimpleCall("get_all_positions", None))
           ELSE SimpleCall("get_all_positions", None))
    /\ IF GetAllPositionsRaises(api)
       THEN /\ result' = DataApiErrorReport(api.fail)
            /\ pc' = "done"
            /\ UNCHANGED <<redeemable_positions, total_value>>
       ELSE LET c == CollectRedeemablePositions(api)
            IN  /\ redeemable_positions' = c.redeemable
                /\ total_value' = c.total_value
                /\ IF c.redeemable = <<>>
                   THEN /\ result' = NothingReport
                        /\ pc' = "done"
                   ELSE /\ result' = result
                        /\ pc' = "mode"
    /\ UNCHANGED <<fetch_vars, balance_vars, first_run>>
    /\ UNCHANGED <<user_address, private_key, api, dry_run, fallback_rpc_url, max_gas_price_gwei, grouped,
                   gasless_success, gasless_failed, gasless_error,
                   remaining_for_onchain, onchain_success, onchain_failed,
                   all_success, all_failed, idx, nonce, initial_nonce,
                   gas_price>>

\* the branch if dry_run, with the flag ignored
IsDryRunNever(flag) == FALSE

\* if dry_run:
IsDryRun(flag) == flag

\* the summaries, last position first
PendingReversed(positions) ==
    [i \in DOMAIN positions |-> to_summary_dict(positions[Len(positions) + 1 - i])]

\* pending = [p.to_summary_dict() for p in redeemable_positions]
Pending(positions) == [i \in DOMAIN positions |-> to_summary_dict(positions[i])]

\* the dry-run dict, with the unclaimed positions noted as a failure
DryRunReportNoted(positions, total) ==
    ReportWithPending(<<>>, <<Entry(None, "dry-run", None, {}, "not claimed")>>,
                      total, [i \in DOMAIN positions |-> to_summary_dict(positions[i])])

\* the dict returned in dry-run mode
DryRunReport(positions, total) ==
    ReportWithPending(<<>>, <<>>, total, Pending(positions))

\* the positions of the groups, group after group
RECURSIVE Flatten(_)
Flatten(grp) ==
    IF grp = <<>> THEN <<>> ELSE Head(grp).positions \o Flatten(Tail(grp))

\* the positions listed group after group
PendingSourceGrouped(positions) == Flatten(GroupByCondition(positions))

\* for p in redeemable_positions: the list the builder returned, as it is
PendingSource(positions) == positions

\* the dry-run return
ReturnDryRun ==
    /\ pc = "mode"
    /\ IsDryRun(dry_run)
    /\ result' = DryRunReport(PendingSource(redeemable_positions), total_value)
    /\ pc' = "done"
    /\ UNCHANGED <<fetch_vars, balance_vars, first_run>>
    /\ UNCHANGED <<user_address, private_key, api, dry_run, fallback_rpc_url, max_gas_price_gwei,
                   redeemable_positions, total_value, grouped,
                   gasless_success, gasless_failed, gasless_error,
                   remaining_for_onchain, onchain_success, onchain_failed,
                   all_success, all_failed, idx, nonce, initial_nonce,
                   gas_price, calls>>

\* execute mode: group the positions and reset the result lists
GroupPositions ==
    /\ pc = "mode"
    /\ ~IsDryRun(dry_run)
    /\ grouped' = GroupByCondition(redeemable_positions)
    /\ pc' = "gasless"
    /\ UNCHANGED <<fetch_vars, balance_vars, first_run>>
    /\ UNCHANGED <<user_address, private_key, api, dry_run, fallback_rpc_url, max_gas_price_gwei,
                   redeemable_positions, total_value,
                   gasless_success, gasless_failed, gasless_error,
                   remaining_for_onchain, onchain_success, onchain_failed,
                   all_success, all_failed, idx, nonce, initial_nonce,
                   gas_price, calls, result>>

\* ------------------------------------------- _claim_via_gasless_builder
\* how the construction of the relay client ends: it succeeds, the import
\* fails (RuntimeError), the constructor raises RuntimeError, or it raises
\* an exception of another type
RelayConstructions == {"ok", "import_error", "runtime_error", "error"}

\* import, credentials and client construction
GaslessConstruct ==
    /\ pc = "gasless"
    /\ \E how \in RelayConstructions :
        /\ calls' = CASE how = "import_error" -> calls
                      [] how = "ok" ->
                           Append(calls, SimpleCall("PolymarketGaslessWeb3Client", None))
                      [] OTHER ->
                           Append(calls, Failing(SimpleCall("PolymarketGaslessWeb3Client", None)))
        /\ CASE how = "ok" ->
                  /\ idx' = 1
                  /\ pc' = "gasless_loop"
                  /\ UNCHANGED <<gasless_error, result>>
             [] how \in {"import_error", "runtime_error"} ->
                  /\ gasless_error' = how
                  /\ pc' = "residual"
                  /\ UNCHANGED <<idx, result>>
             [] how = "error" ->
                  /\ result' = Raised("Exception")
                  /\ pc' = "done"
                  /\ UNCHANGED <<idx, gasless_error>>
    /\ UNCHANGED <<fetch_vars, balance_vars, first_run>>
    /\ UNCHANGED <<user_address, private_key, api, dry_run, fallback_rpc_url, max_gas_price_gwei,
                   redeemable_positions, total_value, grouped,
                   gasless_success, gasless_failed,
                   remaining_for_onchain, onchain_success, onchain_failed,
                   all_success, all_failed, nonce, initial_nonce, gas_price>>

\* the relayed call given a gas price
RedeemCallPriced(condition_id, positions) ==
    CallRec("redeem_position", condition_id, {}, {GWEI},
            Amounts(positions, <<0, 0>>), NegRisk(positions), <<>>)

\* client.redeem_position(condition_id=, amounts=, neg_risk=)
RedeemCall(condition_id, positions) ==
    CallRec("redeem_position", condition_id, {}, {},
            Amounts(positions, <<0, 0>>), NegRisk(positions), <<>>)

\* the exception of redeem_position swallowed without a record
RelayFailedDropped(failed, condition_id) == failed

\* except Exception: the failure entry of the group
RelayFailed(failed, condition_id) ==
    Append(failed, Entry(condition_id, "gasless", None, {}, "exc:redeem_position"))

\* the loop left at the first exception of redeem_position
GaslessNextPcAbort(i, n, ok) ==
    IF i = n \/ ~ok THEN "residual" ELSE "gasless_loop"

\* the loop goes on to the next group whatever redeem_position did
GaslessNextPc(i, n, ok) == IF i = n THEN "residual" ELSE "gasless_loop"

\* the first group whose relayed call raised is taken a second time
NextRelayGroupAgain(i, ok, failed) ==
    IF ~ok /\ failed = <<>> THEN i ELSE i + 1

\* for condition_id, positions in grouped_by_condition.items(): the next
\* group, whatever redeem_position did
NextRelayGroup(i, ok, failed) == i + 1

\* one iteration of the loop over grouped_by_condition.items()
GaslessRedeem ==
    /\ pc = "gasless_loop"
    /\ idx \in DOMAIN grouped
    /\ LET condition_id == grouped[idx].condition_id
           positions == grouped[idx].positions
           call == RedeemCall(condition_id, positions)
       IN  \E ok \in BOOLEAN :
             /\ calls' = Append(calls, IF ok THEN call ELSE Failing(call))
             /\ IF ok
                THEN /\ gasless_success' = Append(gasless_success,
                            Entry(condition_id, "gasless", "result", {}, None))
                     /\ UNCHANGED gasless_failed
                ELSE /\ gasless_failed' = RelayFailed(gasless_failed, condition_id)
                     /\ UNCHANGED gasless_success
             /\ pc' = GaslessNextPc(idx, Len(grouped), ok)
             /\ idx' = NextRelayGroup(idx, ok, gasless_failed)
    /\ UNCHANGED <<fetch_vars, balance_vars, first_run>>
    /\ UNCHANGED <<user_address, private_key, api, dry_run, fallback_rpc_url, max_gas_price_gwei,
                   redeemable_positions, total_value, grouped, gasless_error,
                   remaining_for_onchain, onchain_success, onchain_failed,
                   all_success, all_failed, nonce, initial_nonce, gas_price,
                   result>>

\* --------------------------------- claim_all_winnings: residual selection
\* the residual with the handled conditions ignored
ResidualAll(grp, success) == grp

\* the groups left for the on-chain path
Residual(grp, success) == Remaining(grp, HandledConditions(success))

\* the condition without the endpoint test
EntersOnchainAny(remaining, rpc_url) == remaining # <<>>

\* if remaining_for_onchain and fallback_rpc_url:
EntersOnchain(remaining, rpc_url) == remaining # <<>> /\ TruthyStr(rpc_url)

\* the new entries put in front of the list
ExtendFront(list, more) == more \o list

\* list.extend(more)
Extend(list, more) == list \o more

\* the lists are merged, the residual is computed and the gate is taken
SelectResidual ==
    /\ pc = "residual"
    /\ all_success' = Extend(all_success, gasless_success)
    /\ all_failed' = Extend(all_failed, gasless_failed)
    /\ remaining_for_onchain' = Residual(grouped, gasless_success)
    /\ pc' = IF EntersOnchain(remaining_for_onchain', fallback_rpc_url)
             THEN "onchain" ELSE "aggregate"
    /\ UNCHANGED <<fetch_vars, balance_vars, first_run>>
    /\ UNCHANGED <<user_address, private_key, api, dry_run, fallback_rpc_url, max_gas_price_gwei,
                   redeemable_positions, total_value, grouped,
                   gasless_success, gasless_failed, gasless_error,
                   onchain_success, onchain_failed, idx, nonce, initial_nonce,
                   gas_price, calls, result>>

\* ---------------------------------------------- _claim_via_onchain_web3
\* how the set-up before the loop ends: the nonce is fetched, web3 is
\* missing, the node is unreachable, or the account or nonce fetch raises
\* RuntimeError or an exception of another type
ChainSetups == {"ok", "import_error", "not_connected", "runtime_error", "error"}

\* the path-level entry replacing what was recorded so far
OnchainUnavailableOnly(failed, reason) ==
    <<Entry(None, "onchain", None, {}, reason)>>

\* except RuntimeError in claim_all_winnings: one path-level entry
OnchainUnavailable(failed, reason) ==
    Append(failed, Entry(None, "onchain", None, {}, reason))

\* import, endpoint check, connection, account and first nonce
OnchainConnect ==
    /\ pc = "onchain"
    /\ \E how \in ChainSetups, n0 \in InitialNonces :
        /\ IF ~TruthyStr(fallback_rpc_url) THEN how = "import_error" ELSE TRUE
        /\ calls' = CASE how = "import_error" -> calls
                      [] how = "not_connected" ->
                           Append(calls, SimpleCall("is_connected", None))
                      [] how = "ok" ->
                           Append(Append(calls, SimpleCall("is_connected", None)),
                                  SimpleCall("get_transaction_count", None))
                      [] OTHER ->
                           Append(Append(calls, SimpleCall("is_connected", None)),
                                  Failing(SimpleCall("get_transaction_count", None)))
        /\ CASE how = "ok" ->
                  /\ nonce' = n0
                  /\ initial_nonce' = n0
                  /\ idx' = 1
                  /\ pc' = "onchain_loop"
                  /\ UNCHANGED <<all_failed, result>>
             [] how \in {"import_error", "not_connected", "runtime_error"} ->
                  /\ all_failed' = OnchainUnavailable(all_failed, how)
                  /\ pc' = "aggregate"
                  /\ UNCHANGED <<nonce, initial_nonce, idx, result>>
             [] how = "error" ->
                  /\ result' = Raised("Exception")
                  /\ pc' = "done"
                  /\ UNCHANGED <<nonce, initial_nonce, idx, all_failed>>
    /\ UNCHANGED <<fetch_vars, balance_vars, first_run>>
    /\ UNCHANGED <<user_address, private_key, api, dry_run, fallback_rpc_url, max_gas_price_gwei,
                   redeemable_positions, total_value, grouped,
                   gasless_success, gasless_failed, gasless_error,
                   remaining_for_onchain, onchain_success, onchain_failed,
                   all_success, gas_price>>

\* what reading w3.eth.gas_price does: a price, or an exception
GasPriceFetches ==
    {[exc |-> None, price |-> p] : p \in GasPrices}
    \cup {[exc |-> e, price |-> 0] : e \in {"runtime_error", "error"}}

\* the price of the first group kept for the later groups
PriceCached(cached, fetched) == IF cached # 0 THEN cached ELSE fetched

\* gas_price = w3.eth.gas_price, in every iteration
PriceUsed(cached, fetched) == fetched

\* the group skipped without a record
RejectedSilently(failed, condition_id) == failed

\* the failure entry of a group whose gas price is over the ceiling
Rejected(failed, condition_id) ==
    Append(failed, Entry(condition_id, "onchain", None, {}, GasCeilingError))

\* the head of one loop iteration: index set, gas price, admission
OnchainGasPrice ==
    /\ pc = "onchain_loop"
    /\ idx \in DOMAIN remaining_for_onchain
    /\ LET condition_id == remaining_for_onchain[idx].condition_id
       IN  \E fetched \in GasPriceFetches :
             /\ calls' = Append(calls,
                    IF fetched.exc = None
                    THEN CallRec("gas_price", condition_id, {}, {fetched.price},
                                 <<>>, FALSE, <<>>)
                    ELSE Failing(SimpleCall("gas_price", condition_id)))
             /\ CASE fetched.exc = "runtime_error" ->
                       /\ all_failed' = OnchainUnavailable(all_failed, "runtime_error")
                       /\ pc' = "aggregate"
                       /\ UNCHANGED <<gas_price, onchain_failed, idx, result>>
                  [] fetched.exc = "error" ->
                       /\ result' = Raised("Exception")
                       /\ pc' = "done"
                       /\ UNCHANGED <<gas_price, onchain_failed, idx, all_failed>>
                  [] OTHER ->
                       /\ gas_price' = PriceUsed(gas_price, fetched.price)
                       /\ IF OverCeiling(gas_price', max_gas_price_gwei)
                          THEN /\ onchain_failed' =
                                      Rejected(onchain_failed, condition_id)
                               /\ idx' = idx + 1
                               /\ pc' = "onchain_loop"
                          ELSE /\ pc' = "onchain_submit"
                               /\ UNCHANGED <<onchain_failed, idx>>
                       /\ UNCHANGED <<all_failed, result>>
    /\ UNCHANGED <<fetch_vars, balance_vars, first_run>>
    /\ UNCHANGED <<user_address, private_key, api, dry_run, fallback_rpc_url, max_gas_price_gwei,
                   redeemable_positions, total_value, grouped,
                   gasless_success, gasless_failed, gasless_error,
                   remaining_for_onchain, onchain_success, all_success,
                   nonce, initial_nonce>>

\* the step of the try block that raises, if one does
Faults ==
    {"none", "build_transaction", "estimate_gas", "sign_transaction",
     "send_raw_transaction", "wait_for_transaction_receipt"}

\* what estimate_gas answers when it answers
EstimatedGas == 100000

\* the limit used when estimate_gas raises
FallbackGas == 500000

\* tx["gas"] = int(gas_estimate * 1.2)
GasLimit(gas_estimate) == (gas_estimate * 12) \div 10

\* the calls of one try block for a given fault, in order
SubmitCalls(condition_id, index_sets, n, price, fault, status) ==
    LET build == CallRec("build_transaction", condition_id, {n}, {price},
                         <<>>, FALSE, index_sets)
        est   == SimpleCall("estimate_gas", condition_id)
        gas   == IF fault = "estimate_gas" THEN FallbackGas ELSE GasLimit(EstimatedGas)
        sign  == [CallRec("sign_transaction", condition_id, {n}, {price},
                          <<>>, FALSE, index_sets) EXCEPT !.gas = {gas}]
        send  == [sign EXCEPT !.op = "send_raw_transaction"]
        wait  == [sign EXCEPT !.op = "wait_for_transaction_receipt",
                              !.status = {status}]
        nowait == [wait EXCEPT !.status = {}]
    IN  CASE fault = "build_transaction" -> <<Failing(build)>>
          [] fault = "sign_transaction" -> <<build, est, Failing(sign)>>
          [] fault = "send_raw_transaction" -> <<build, est, sign, Failing(send)>>
          [] fault = "wait_for_transaction_receipt" ->
               <<build, est, sign, send, Failing(nowait)>>
          [] fault = "estimate_gas" -> <<build, Failing(est), sign, send, wait>>
          [] OTHER -> <<build, est, sign, send, wait>>

\* the transaction counted as sent only once its receipt came
BroadcastConfirmed(fault) == fault \in {"none", "estimate_gas"}

\* send_raw_transaction returned
Broadcast(fault) ==
    fault \in {"none", "estimate_gas", "wait_for_transaction_receipt"}

\* the nonce after the try block, incremented also when nothing was sent
NonceAfterAlways(n, fault) == n + 1

\* nonce += 1 follows send_raw_transaction
NonceAfter(n, fault) == IF Broadcast(fault) THEN n + 1 ELSE n

\* the status test, inverted
StatusOkZero(status) == status = 0

\* if receipt.status == 1:
StatusOk(status) == status = 1

\* the price read a second time for the transaction, one wei higher
TxGasPriceRefetched(admitted) == admitted + 1

\* "gasPrice": gas_price, the local the admission check compared
TxGasPrice(admitted) == admitted

\* the first group whose attempt raised is attempted a second time
NextGroupRetry(i, fault, failed) ==
    IF fault \notin {"none", "estimate_gas"} /\ failed = <<>> THEN i ELSE i + 1

\* for condition_id, positions in grouped_by_condition.items(): the loop
\* moves to the next group whatever the attempt gave
NextGroup(i, fault, failed) == i + 1

\* the try block of one loop iteration: build, estimate, sign, send, wait
OnchainSubmit ==
    /\ pc = "onchain_submit"
    /\ idx \in DOMAIN remaining_for_onchain
    /\ LET condition_id == remaining_for_onchain[idx].condition_id
           index_sets == Sorted(IndexSets(remaining_for_onchain[idx].positions))
       IN  \E fault \in Faults, status \in {0, 1} :
             /\ calls' = calls \o SubmitCalls(condition_id, index_sets, nonce,
                                              TxGasPrice(gas_price), fault,
                                              status)
             /\ nonce' = NonceAfter(nonce, fault)
             /\ IF fault \in {"none", "estimate_gas"}
                THEN IF StatusOk(status)
                     THEN /\ onchain_success' = Append(onchain_success,
                                 Entry(condition_id, "onchain", None, {nonce}, None))
                          /\ UNCHANGED onchain_failed
                     ELSE /\ onchain_failed' = Append(onchain_failed,
                                 Entry(condition_id, "onchain", None, {nonce}, StatusError))
                          /\ UNCHANGED onchain_success
                ELSE /\ onchain_failed' = Append(onchain_failed,
                            Entry(condition_id, "onchain", None, {}, fault))
                     /\ UNCHANGED onchain_success
             /\ idx' = NextGroup(idx, fault, onchain_failed)
    /\ pc' = "onchain_loop"
    /\ UNCHANGED <<fetch_vars, balance_vars, first_run>>
    /\ UNCHANGED <<user_address, private_key, api, dry_run, fallback_rpc_url, max_gas_price_gwei,
                   redeemable_positions, total_value, grouped,
                   gasless_success, gasless_failed, gasless_error,
                   remaining_for_onchain, all_success, all_failed,
                   initial_nonce, gas_price, result>>

\* the loop is over: the driver returns and its lists are merged
OnchainReturn ==
    /\ pc = "onchain_loop"
    /\ idx = Len(remaining_for_onchain) + 1
    /\ all_success' = Extend(all_success, onchain_success)
    /\ all_failed' = Extend(all_failed, onchain_failed)
    /\ pc' = "aggregate"
    /\ UNCHANGED <<fetch_vars, balance_vars, first_run>>
    /\ UNCHANGED <<user_address, private_key, api, dry_run, fallback_rpc_url, max_gas_price_gwei,
                   redeemable_positions, total_value, grouped,
                   gasless_success, gasless_failed, gasless_error,
                   remaining_for_onchain, onchain_success, onchain_failed,
                   idx, nonce, initial_nonce, gas_price, calls, result>>

\* ------------------------------------- claim_all_winnings: the report
\* the failed list without the path-level entry
WithGaslessNoteNever(failed, error, g_failed) == failed

\* if gasless_error is not None and not gasless_failed: one path-level entry
WithGaslessNote(failed, error, g_failed) ==
    IF error # None /\ g_failed = <<>>
    THEN Append(failed, Entry(None, "gasless", None, {}, error))
    ELSE failed

\* the value of the positions of the groups that have a success entry
RECURSIVE SettledValue(_, _)
SettledValue(grp, handled) ==
    IF grp = <<>> THEN 0
    ELSE (IF Head(grp).condition_id \in handled
          THEN Head(grp).positions[1].current_value
          ELSE 0) + SettledValue(Tail(grp), handled)

\* the report with the total reduced by what was settled
ExecuteReportReconciled(success, failed, total, grp) ==
    Report(success, failed, total - SettledValue(grp, HandledConditions(success)))

\* the dict returned in execute mode
ExecuteReport(success, failed, total, grp) == Report(success, failed, total)

Aggregate ==
    /\ pc = "aggregate"
    /\ all_failed' = WithGaslessNote(all_failed, gasless_error, gasless_failed)
    /\ result' = ExecuteReport(all_success, all_failed', total_value, grouped)
    /\ pc' = "done"
    /\ UNCHANGED <<fetch_vars, balance_vars, first_run>>
    /\ UNCHANGED <<user_address, private_key, api, dry_run, fallback_rpc_url, max_gas_price_gwei,
                   redeemable_positions, total_value, grouped,
                   gasless_success, gasless_failed, gasless_error,
                   remaining_for_onchain, onchain_success, onchain_failed,
                   all_success, idx, nonce, initial_nonce, gas_price, calls>>

Next ==
    \/ Validate
    \/ CollectPositions
    \/ ReturnDryRun
    \/ GroupPositions
    \/ GaslessConstruct
    \/ GaslessRedeem
    \/ SelectResidual
    \/ OnchainConnect
    \/ OnchainGasPrice
    \/ OnchainSubmit
    \/ OnchainReturn
    \/ Aggregate

Spec == Init /\ [][Next]_vars

\* longest response of the Data API in the specification with fairness
MaxLive == 2

InitLive ==
    /\ pc = "call"
    /\ BalanceArgs0
    /\ api \in {ApiOk(d) : d \in SeqsUpTo(OrchestrationItems, MaxLive)}
               \cup {ApiFail(f) : f \in ApiFailures}
    /\ Locals0

\* claim_all_winnings when every external call it waits for returns or
\* raises: a step that is possible is eventually taken
LiveSpec == InitLive /\ [][Next]_vars /\ WF_vars(Next)

\* ------------------------------------------- the Claim Group Builder alone
\* _collect_redeemable_positions followed by _group_by_condition, on every
\* kind of record
InitBuilder ==
    /\ pc = "builder"
    /\ BalanceArgs0
    /\ api \in {ApiOk(d) : d \in SeqsUpTo(BuilderItems, MaxRecords)}
    /\ Locals0

\* the accumulators of an earlier call kept
KeptAccumulators(redeemable, total) ==
    [redeemable |-> redeemable, total_value |-> total]

\* redeemable = []; total_value = 0.0 at every call
FreshAccumulators(redeemable, total) ==
    [redeemable |-> <<>>, total_value |-> 0]

BuilderCollect ==
    /\ pc = "builder"
    /\ LET acc == FreshAccumulators(redeemable_positions, total_value)
           c == CollectLoop(GetAllPositions(api), acc.redeemable,
                            acc.total_value)
       IN  /\ redeemable_positions' = c.redeemable
           /\ total_value' = c.total_value
    /\ pc' = "builder_group"
    /\ UNCHANGED <<fetch_vars, balance_vars, first_run>>
    /\ UNCHANGED <<user_address, private_key, api, dry_run, fallback_rpc_url, max_gas_price_gwei, grouped,
                   gasless_success, gasless_failed, gasless_error,
                   remaining_for_onchain, onchain_success, onchain_failed,
                   all_success, all_failed, idx, nonce, initial_nonce,
                   gas_price, calls, result>>

BuilderGroup ==
    /\ pc = "builder_group"
    /\ grouped' = GroupByCondition(redeemable_positions)
    /\ pc' = "builder_done"
    /\ UNCHANGED <<fetch_vars, balance_vars, first_run>>
    /\ UNCHANGED <<user_address, private_key, api, dry_run, fallback_rpc_url, max_gas_price_gwei,
                   redeemable_positions, total_value,
                   gasless_success, gasless_failed, gasless_error,
                   remaining_for_onchain, onchain_success, onchain_failed,
                   all_success, all_failed, idx, nonce, initial_nonce,
                   gas_price, calls, result>>

NextBuilder == BuilderCollect \/ BuilderGroup

BuilderSpec == InitBuilder /\ [][NextBuilder]_vars

\* --------------------------------------- the builder run a second time
\* what a run of the builder returned, and the list it was given
RunOutput(grp, total, data) ==
    [grouped |-> grp, total_value |-> total, data |-> data]

\* the builder is called again on the same response
BuilderAgain ==
    /\ pc = "builder_done"
    /\ first_run = <<>>
    /\ first_run' = <<RunOutput(grouped, total_value, api.data)>>
    /\ pc' = "builder"
    /\ UNCHANGED <<claim_vars, result, fetch_vars, balance_vars>>

NextTwice == BuilderCollect \/ BuilderGroup \/ BuilderAgain

TwiceSpec == InitBuilder /\ [][NextTwice]_vars

\* --------------- the two drivers on a mapping of any ClaimablePosition
\* the positions of a call
MaxGroup == 3

\* a ClaimablePosition object
ClaimablePosition(cid, quantity, negative_risk, outcome_index) ==
    [market_question |-> "Q", outcome |-> "Yes", quantity |-> quantity,
     current_value |-> quantity, condition_id |-> cid, asset |-> "T",
     negative_risk |-> negative_risk, outcome_index |-> outcome_index]

\* positions of one market with every kind of outcome index: 0, 1, 2,
\* None, negative
DriverPositions ==
    { ClaimablePosition("M1", 3, FALSE, {0}),
      ClaimablePosition("M1", 4, FALSE, {1}),
      ClaimablePosition("M1", 2, TRUE, {1}),
      ClaimablePosition("M1", 5, FALSE, {}),
      ClaimablePosition("M1", 6, FALSE, {2}),
      ClaimablePosition("M1", 7, FALSE, {-1}) }

\* total_value += pos.current_value
RECURSIVE TotalValue(_)
TotalValue(positions) ==
    IF positions = <<>> THEN 0
    ELSE Head(positions).current_value + TotalValue(Tail(positions))

\* claim_all_winnings in execute mode at the point where the mapping is
\* handed to the drivers
InitDrivers ==
    /\ pc = "gasless"
    /\ BalanceArgs0
    /\ api = ApiOk(<<>>)
    /\ user_address = "valid"
    /\ private_key = "key"
    /\ dry_run = FALSE
    /\ fallback_rpc_url = "rpc"
    /\ max_gas_price_gwei = {}
    /\ redeemable_positions \in SeqsUpTo(DriverPositions, MaxGroup) \ {<<>>}
    /\ total_value = TotalValue(redeemable_positions)
    /\ grouped = GroupByCondition(redeemable_positions)
    /\ Settlement0

NextDrivers ==
    \/ GaslessConstruct
    \/ GaslessRedeem
    \/ SelectResidual
    \/ OnchainConnect
    \/ OnchainGasPrice
    \/ OnchainSubmit
    \/ OnchainReturn
    \/ Aggregate

DriverSpec == InitDrivers /\ [][NextDrivers]_vars

\* --------------------------------- get_markets.py: fetch_active_markets
MAX_PAGE_SIZE == 500
MAX_PAGES == 20

\* the JSON values at the head of a page that are spelled out; the values
\* after them, if any, are values that are not JSON objects
MaxPageItems == 2

\* the market ids the server draws from
MaxMarketId == 1

MarketIds == 1..MaxMarketId

\* a JSON object of a page and its "id": absent or null ({}), a number, or
\* a value Python cannot hash, such as an array
MarketItem(id, hashable) ==
    [isdict |-> TRUE, id |-> id, hashable |-> hashable]

\* a value of a page that is not a JSON object
NonDictMarket == [isdict |-> FALSE, id |-> {}, hashable |-> TRUE]

MarketItems ==
    {NonDictMarket, MarketItem({}, TRUE), MarketItem({0}, FALSE)}
        \cup {MarketItem({k}, TRUE) : k \in MarketIds}

\* a JSON list: its first values, and how many non-objects follow them
Page(head, filler) == [head |-> head, filler |-> filler]

\* len(data)
LenData(data) == Len(data.head) + data.filler

\* the pages the server may answer with: empty, short, or of the size asked
Pages ==
    UNION {{Page(h, 0), Page(h, MAX_PAGE_SIZE - Len(h))} :
              h \in SeqsUpTo(MarketItems, MaxPageItems)}

\* a failed request, a status other than 200, a body that is not JSON, a
\* JSON value that is not a list
GammaFailures == {"request", "status", "json", "structure"}

\* the test on seen_ids left out
SeenBeforeNever(market_id, seen) == FALSE

\* market_id is not None and market_id in seen_ids
SeenBefore(market_id, seen) == market_id # {} /\ Val(market_id) \in seen

\* the locals at the head of the loop over a page
Scan0(all, seen) ==
    [all_markets |-> all, seen_ids |-> seen, new_items |-> 0, exc |-> None]

\* for item in data: non-objects and seen ids are skipped, the rest is
\* appended; testing an unhashable id against the set raises TypeError
RECURSIVE ScanItems(_, _)
ScanItems(items, st) ==
    IF items = <<>> \/ st.exc # None THEN st
    ELSE LET item == Head(items)
         IN  IF ~item.isdict THEN ScanItems(Tail(items), st)
             ELSE IF item.id # {} /\ ~item.hashable
                  THEN [st EXCEPT !.exc = "TypeError"]
             ELSE IF SeenBefore(item.id, st.seen_ids)
                  THEN ScanItems(Tail(items), st)
             ELSE ScanItems(Tail(items),
                    [st EXCEPT !.all_markets = Append(@, item),
                               !.seen_ids = @ \cup item.id,
                               !.new_items = @ + 1])

\* if new_items == 0 or len(data) < MAX_PAGE_SIZE: break
PageEnds(n, len) == n = 0 \/ len < MAX_PAGE_SIZE

FetchRaised(exc) == [kind |-> "raise", exc |-> exc, value |-> <<>>]

FetchReturned(value) == [kind |-> "return", exc |-> None, value |-> value]

\* one iteration of the loop: the request, the checks of the response, the
\* scan of the page, and the break or the next offset
FetchPage ==
    /\ pc = "markets_loop"
    /\ iteration < MAX_PAGES
    /\ iteration' = iteration + 1
    /\ requests' = Append(requests,
                          [limit |-> MAX_PAGE_SIZE, offset |-> offset])
    /\ \/ /\ \E f \in GammaFailures :
                fetch_result' = FetchRaised("PolymarketGammaAPIError")
          /\ pc' = "markets_done"
          /\ UNCHANGED <<offset, all_markets, seen_ids, len_data, new_items>>
       \/ \E data \in Pages :
            LET st == ScanItems(data.head, Scan0(all_markets, seen_ids))
            IN  /\ len_data' = LenData(data)
                /\ IF LenData(data) = 0
                   THEN /\ pc' = "markets_return"
                        /\ UNCHANGED <<offset, all_markets, seen_ids,
                                       new_items, fetch_result>>
                   ELSE IF st.exc # None
                   THEN /\ fetch_result' = FetchRaised(st.exc)
                        /\ pc' = "markets_done"
                        /\ UNCHANGED <<offset, all_markets, seen_ids,
                                       new_items>>
                   ELSE /\ all_markets' = st.all_markets
                        /\ seen_ids' = st.seen_ids
                        /\ new_items' = st.new_items
                        /\ IF PageEnds(st.new_items, LenData(data))
                           THEN pc' = "markets_return" /\ offset' = offset
                           ELSE pc' = "markets_loop"
                                /\ offset' = offset + MAX_PAGE_SIZE
                        /\ UNCHANGED fetch_result
    /\ UNCHANGED <<claim_vars, result, balance_vars, first_run>>

\* return all_markets, after a break or the last iteration
ReturnMarkets ==
    /\ \/ pc = "markets_return"
       \/ pc = "markets_loop" /\ iteration = MAX_PAGES
    /\ fetch_result' = FetchReturned(all_markets)
    /\ pc' = "markets_done"
    /\ UNCHANGED <<offset, iteration, all_markets, seen_ids, len_data,
                   new_items, requests>>
    /\ UNCHANGED <<claim_vars, result, balance_vars, first_run>>

InitMarkets ==
    /\ pc = "markets_loop"
    /\ BalanceArgs0
    /\ api = ApiOk(<<>>)
    /\ Locals0

NextMarkets == FetchPage \/ ReturnMarkets

MarketsSpec == InitMarkets /\ [][NextMarkets]_vars

\* ------------------------------------------ balance.py: get_usdc_balance
DEFAULT_NETWORK == "polygon"

\* NETWORKS: chain id and USDC contract of each supported network
NETWORKS ==
    [n \in {"polygon", "base", "arbitrum"} |->
        [name |-> n,
         chain_id |-> CASE n = "polygon" -> 137
                        [] n = "base" -> 8453
                        [] OTHER -> 42161,
         usdc_address |-> CASE n = "polygon" -> "POLYGON_USDC_E_ADDRESS"
                            [] n = "base" -> "BASE_USDC_ADDRESS"
                            [] OTHER -> "ARBITRUM_USDC_ADDRESS"]]

PUBLIC_RPC_ENDPOINTS ==
    [n \in {"polygon", "base", "arbitrum"} |->
        CASE n = "polygon" ->
               <<"https://polygon-rpc.com", "https://polygon.llamarpc.com",
                 "https://rpc.ankr.com/polygon", "https://1rpc.io/polygon">>
          [] n = "base" ->
               <<"https://mainnet.base.org", "https://base.llamarpc.com",
                 "https://rpc.ankr.com/base">>
          [] OTHER ->
               <<"https://arb1.arbitrum.io/rpc",
                 "https://arbitrum.llamarpc.com",
                 "https://rpc.ankr.com/arbitrum">>]

\* str.strip() on the strings of the model
Strip(str) ==
    CASE str = " " -> ""
      [] str = " explicit " -> "explicit"
      [] str = " env " -> "env"
      [] str = " Base " -> "Base"
      [] OTHER -> str

\* str.lower() on the strings of the model
Lower(str) == IF str = "Base" THEN "base" ELSE str

\* (name or DEFAULT_NETWORK).strip().lower(), DEFAULT_NETWORK if empty
NormalizedNetwork(name) ==
    LET normalized == Lower(Strip(OrStr(name, DEFAULT_NETWORK)))
    IN  IF normalized = "" THEN DEFAULT_NETWORK ELSE normalized

\* _get_network_config raises ValueError
UnsupportedNetwork(name) == NormalizedNetwork(name) \notin DOMAIN NETWORKS

\* _get_public_rpc_candidates
PublicRpcCandidates(name) ==
    IF name \in DOMAIN PUBLIC_RPC_ENDPOINTS
    THEN PUBLIC_RPC_ENDPOINTS[name] ELSE <<>>

\* _resolve_rpc_url: the stripped argument, else the stripped environment
\* variable, else None
ResolveRpcUrl(explicit, env) ==
    IF TruthyStr(explicit) /\ Strip(explicit) # "" THEN Strip(explicit)
    ELSE IF Strip(env) # "" THEN Strip(env)
    ELSE None

\* what is_connected() does: it answers True or False, or it raises
IsConnectedOutcomes == {"true", "false", "raise"}

Probe(url, outcome) == [url |-> url, outcome |-> outcome]

BalanceRaised(exc) == [NoBalanceResult EXCEPT !.kind = "raise", !.exc = exc]

\* what a contract read does: a value, an exception, or a value int()
\* rejects
Read(how, v) == [how |-> how, v |-> v]

DecimalsReads ==
    {Read("raise", 0), Read("not_int", 0)}
        \cup {Read("value", v) : v \in {-1, 0, 6}}

SymbolReads == {"raise", "USDC.e"}

BalanceReads ==
    {Read("raise", 0), Read("not_int", 0)}
        \cup {Read("value", v) : v \in {0, 2500000}}

\* decimals: 6 when the read raises, is not an integer, or is negative
DecimalsOf(read) ==
    IF read.how # "value" \/ read.v < 0 THEN 6 ELSE read.v

\* raw_balance: 0 when int() rejects the value
RawBalanceOf(read) == IF read.how = "value" THEN read.v ELSE 0

RECURSIVE Pow10(_)
Pow10(n) == IF n = 0 THEN 1 ELSE 10 * Pow10(n - 1)

\* raw_balance / (10 ** decimals) if decimals > 0 else float(raw_balance)
HumanBalance(raw, decimals) ==
    IF decimals > 0 THEN [num |-> raw, den |-> Pow10(decimals)]
    ELSE [num |-> raw, den |-> 1]

\* address check, network, _resolve_rpc_url and the import of web3
BalanceValidate ==
    /\ pc = "balance_call"
    /\ \E web3_installed \in BOOLEAN :
        IF ~IsValidEvmAddress(balance_address)
        THEN /\ balance_result' = BalanceRaised("InvalidAddressError")
             /\ pc' = "balance_done"
             /\ UNCHANGED <<cfg, resolved_rpc_url>>
        ELSE IF UnsupportedNetwork(network)
        THEN /\ balance_result' = BalanceRaised("ValueError")
             /\ pc' = "balance_done"
             /\ UNCHANGED <<cfg, resolved_rpc_url>>
        ELSE /\ cfg' = NormalizedNetwork(network)
             /\ resolved_rpc_url' = ResolveRpcUrl(explicit_rpc_url, env_url)
             /\ IF ~web3_installed
                THEN /\ balance_result' = BalanceRaised("RuntimeError")
                     /\ pc' = "balance_done"
                ELSE /\ pc' = IF TruthyStr(resolved_rpc_url')
                              THEN "balance_connect" ELSE "balance_public"
                     /\ UNCHANGED balance_result
    /\ UNCHANGED <<balance_address, network, explicit_rpc_url, env_url, w3,
                   candidates, candidate_idx, last_error, probes>>
    /\ UNCHANGED <<claim_vars, result, fetch_vars, first_run>>

\* if resolved_rpc_url: the client of the configured URL and its check
BalanceConnect ==
    /\ pc = "balance_connect"
    /\ \E outcome \in IsConnectedOutcomes :
        /\ probes' = Append(probes, Probe(resolved_rpc_url, outcome))
        /\ CASE outcome = "true" ->
                  /\ w3' = resolved_rpc_url
                  /\ pc' = "balance_read"
                  /\ UNCHANGED balance_result
             [] outcome = "false" ->
                  /\ balance_result' = BalanceRaised("RPCConfigError")
                  /\ pc' = "balance_done"
                  /\ UNCHANGED w3
             [] OTHER ->
                  /\ balance_result' = BalanceRaised("Exception")
                  /\ pc' = "balance_done"
                  /\ UNCHANGED w3
    /\ UNCHANGED <<balance_address, network, explicit_rpc_url, env_url, cfg,
                   resolved_rpc_url, candidates, candidate_idx, last_error>>
    /\ UNCHANGED <<claim_vars, result, fetch_vars, first_run>>

\* if w3 is None: the list of public endpoints, RPCConfigError if empty
BalanceCandidates ==
    /\ pc = "balance_public"
    /\ candidates' = PublicRpcCandidates(cfg)
    /\ IF candidates' = <<>>
       THEN /\ balance_result' = BalanceRaised("RPCConfigError")
            /\ pc' = "balance_done"
            /\ UNCHANGED candidate_idx
       ELSE /\ candidate_idx' = 1
            /\ pc' = "balance_public_loop"
            /\ UNCHANGED balance_result
    /\ UNCHANGED <<balance_address, network, explicit_rpc_url, env_url, cfg,
                   resolved_rpc_url, w3, last_error, probes>>
    /\ UNCHANGED <<claim_vars, result, fetch_vars, first_run>>

\* one iteration of for url in candidates
BalanceTryPublic ==
    /\ pc = "balance_public_loop"
    /\ candidate_idx <= Len(candidates)
    /\ LET url == candidates[candidate_idx]
       IN  \E outcome \in IsConnectedOutcomes :
            /\ probes' = Append(probes, Probe(url, outcome))
            /\ CASE outcome = "true" ->
                      /\ w3' = url
                      /\ resolved_rpc_url' = url
                      /\ pc' = "balance_read"
                      /\ UNCHANGED <<candidate_idx, last_error>>
                 [] outcome = "false" ->
                      /\ candidate_idx' = candidate_idx + 1
                      /\ UNCHANGED <<w3, resolved_rpc_url, last_error, pc>>
                 [] OTHER ->
                      /\ last_error' = url
                      /\ candidate_idx' = candidate_idx + 1
                      /\ UNCHANGED <<w3, resolved_rpc_url, pc>>
    /\ UNCHANGED <<balance_address, network, explicit_rpc_url, env_url, cfg,
                   candidates, balance_result>>
    /\ UNCHANGED <<claim_vars, result, fetch_vars, first_run>>

\* the loop ended with w3 still None
BalanceNoPublic ==
    /\ pc = "balance_public_loop"
    /\ candidate_idx > Len(candidates)
    /\ balance_result' = BalanceRaised("RPCConfigError")
    /\ pc' = "balance_done"
    /\ UNCHANGED <<balance_address, network, explicit_rpc_url, env_url, cfg,
                   resolved_rpc_url, w3, candidates, candidate_idx,
                   last_error, probes>>
    /\ UNCHANGED <<claim_vars, result, fetch_vars, first_run>>

\* the three contract reads and the returned dict
BalanceRead ==
    /\ pc = "balance_read"
    /\ \E d \in DecimalsReads, sym \in SymbolReads, b \in BalanceReads :
        balance_result' =
            IF b.how = "raise" THEN BalanceRaised("RuntimeError")
            ELSE [kind |-> "return", exc |-> None,
                  address |-> balance_address,
                  network |-> NETWORKS[cfg].name,
                  chain_id |-> NETWORKS[cfg].chain_id,
                  usdc_contract |-> NETWORKS[cfg].usdc_address,
                  symbol |-> IF sym = "raise" THEN "USDC" ELSE sym,
                  decimals |-> DecimalsOf(d),
                  raw_balance |-> RawBalanceOf(b),
                  balance |-> HumanBalance(RawBalanceOf(b), DecimalsOf(d))]
    /\ pc' = "balance_done"
    /\ UNCHANGED <<balance_address, network, explicit_rpc_url, env_url, cfg,
                   resolved_rpc_url, w3, candidates, candidate_idx,
                   last_error, probes>>
    /\ UNCHANGED <<claim_vars, result, fetch_vars, first_run>>

BalanceAddresses == {"valid", "invalid"}
NetworkArgs == {None, " ", "polygon", " Base ", "arbitrum", "solana"}
RpcUrlArgs == {None, "", " ", "explicit", " explicit "}
EnvUrls == {"", " ", "env", " env "}

InitBalance ==
    /\ pc = "balance_call"
    /\ balance_address \in BalanceAddresses
    /\ network \in NetworkArgs
    /\ explicit_rpc_url \in RpcUrlArgs
    /\ env_url \in EnvUrls
    /\ api = ApiOk(<<>>)
    /\ Locals0

NextBalance ==
    \/ BalanceValidate
    \/ BalanceConnect
    \/ BalanceCandidates
    \/ BalanceTryPublic
    \/ BalanceNoPublic
    \/ BalanceRead

BalanceSpec == InitBalance /\ [][NextBalance]_vars

\* =============================================================== properties
\* the calls that belong to a settlement path
RelayOps == {"PolymarketGaslessWeb3Client", "redeem_position"}

ChainOps ==
    {"is_connected", "get_transaction_count", "gas_price", "build_transaction",
     "estimate_gas", "sign_transaction", "send_raw_transaction",
     "wait_for_transaction_receipt"}

\* pc is inside _claim_via_gasless_builder / _claim_via_onchain_web3
InGasless == pc \in {"gasless", "gasless_loop"}
InOnchain == pc \in {"onchain", "onchain_loop", "onchain_submit"}

Returned == pc = "done" /\ result.kind = "return"

\* the records of the Data API response that are claimable, read off the
\* response itself: a JSON object, redeemable, with a market id and a
\* positive size
ClaimableItem(item) ==
    /\ item.isdict
    /\ item.redeemable
    /\ item.conditionId \notin {None, ""}
    /\ item.size # {}
    /\ \A q \in item.size : q > 0

ClaimableItems(data) == SelectSeq(data, ClaimableItem)

RECURSIVE SumValues(_)
SumValues(items) ==
    IF items = <<>> THEN 0
    ELSE (IF Head(items).currentValue = {} THEN 0
          ELSE Val(Head(items).currentValue)) + SumValues(Tail(items))

\* the items of one market, in order
OfMarket(items, cid) ==
    LET Test(item) == item.conditionId = cid IN SelectSeq(items, Test)

\* the entries of one market, in order
EntriesOf(entries, cid) ==
    LET Test(e) == e.condition_id = cid IN SelectSeq(entries, Test)

\* C1: in dry-run mode no settlement capability is ever invoked: the call
\* log of a dry-run holds no relay call and no chain call, and the run is
\* never inside one of the two drivers
C1_DryRunInvokesNoSettlement ==
    (pc # "call" /\ dry_run) =>
        /\ \A i \in DOMAIN calls : calls[i].op \notin RelayOps \cup ChainOps
        /\ ~InGasless
        /\ ~InOnchain

\* a dry run over claimable positions has returned
C1_Witness ==
    /\ Returned
    /\ dry_run
    /\ redeemable_positions # <<>>
    /\ "pending" \in result.keys

C3_PendingIffDryRun ==
    Returned => (("pending" \in result.keys) <=> dry_run)

\* C4: a dry run over at least one claimable position reports one pending
\* entry per claimable position, each market's entries in the order of the
\* position source, and the builder's total
C4_DryRunPending ==
    (Returned /\ dry_run /\ api.fail = "none"
       /\ ClaimableItems(api.data) # <<>>) =>
        LET items == ClaimableItems(api.data)
        IN  /\ "pending" \in result.keys
            /\ Len(result.pending) = Len(items)
            /\ \A cid \in {items[i].conditionId : i \in DOMAIN items} :
                 LET mine == OfMarket(items, cid)
                     theirs == EntriesOf(result.pending, cid)
                 IN  /\ Len(mine) = Len(theirs)
                     /\ \A k \in DOMAIN mine :
                          /\ theirs[k].quantity = Val(mine[k].size)
                          /\ theirs[k].current_value = Val(mine[k].currentValue)
                          /\ theirs[k].market_question = mine[k].title
                          /\ theirs[k].outcome = mine[k].outcome
                          /\ theirs[k].asset = mine[k].asset
                          /\ theirs[k].negative_risk = mine[k].negativeRisk
            /\ result.total_amount = SumValues(items)
            /\ result.total_amount = total_value

\* a dry run over two different positions of one market and a position of
\* another market has returned
C4_Witness ==
    /\ Returned
    /\ dry_run
    /\ Len(result.pending) = 3
    /\ result.pending[1].condition_id = result.pending[3].condition_id
    /\ result.pending[1] # result.pending[3]
    /\ result.pending[2].condition_id # result.pending[1].condition_id

\* C5: in execute mode the relayed path comes first and the on-chain path
\* only sees what is left: every chain call follows every relay call and is
\* made after the gasless driver ended; no chain call and no on-chain entry
\* concerns a market with a relayed success; the on-chain driver runs only
\* with an endpoint and a group the relay did not settle
C5_RelayFirstThenResidual ==
    LET handled == {gasless_success[i].condition_id : i \in DOMAIN gasless_success}
        chain == {i \in DOMAIN calls : calls[i].op \in ChainOps}
        relay == {i \in DOMAIN calls : calls[i].op \in RelayOps}
        redeems == {i \in DOMAIN calls : calls[i].op = "redeem_position"}
        started == InOnchain \/ chain # {}
    IN  /\ \A i \in chain : \A j \in relay : j < i
        /\ started =>
              /\ ~InGasless
              /\ ~dry_run
              /\ gasless_error # None \/ Cardinality(redeems) = Len(grouped)
              /\ fallback_rpc_url \notin {None, ""}
              /\ \E g \in DOMAIN grouped : grouped[g].condition_id \notin handled
        /\ \A i \in chain : calls[i].condition_id \notin handled
        /\ InOnchain =>
              \A g \in DOMAIN remaining_for_onchain :
                 remaining_for_onchain[g].condition_id \notin handled
        /\ \A i \in DOMAIN all_failed :
              all_failed[i].mode = "onchain" =>
                 all_failed[i].condition_id \notin handled
        /\ \A i \in DOMAIN all_success :
              all_success[i].mode = "onchain" =>
                 all_success[i].condition_id \notin handled

\* one market was settled by the relay and another one on chain
C5_Witness ==
    /\ Returned
    /\ \E i \in DOMAIN result.success : result.success[i].mode = "gasless"
    /\ \E i \in DOMAIN result.success : result.success[i].mode = "onchain"

\* C6: with a ceiling G (gwei), the group whose price P (wei) was just
\* fetched is recorded as failed with the ceiling reason exactly when
\* P > G * 10^9; the skip leaves the nonce as it was and builds nothing; a
\* price equal to the ceiling goes on to the submission
C6_GasPriceAdmission ==
    [][(/\ pc = "onchain_loop"
        /\ pc' \in {"onchain_loop", "onchain_submit"}
        /\ idx \in DOMAIN remaining_for_onchain
        /\ max_gas_price_gwei # {}) =>
          LET G == Val(max_gas_price_gwei)
              fetch == calls'[Len(calls')]
              P == Val(fetch.gasPrice)
              cid == remaining_for_onchain[idx].condition_id
              skipped ==
                  /\ Len(onchain_failed') = Len(onchain_failed) + 1
                  /\ onchain_failed'[Len(onchain_failed')].condition_id = cid
                  /\ onchain_failed'[Len(onchain_failed')].error = GasCeilingError
          IN  /\ fetch.op = "gas_price"
              /\ Len(calls') = Len(calls) + 1
              /\ skipped <=> P > G * 1000000000
              /\ skipped => (nonce' = nonce /\ pc' = "onchain_loop" /\ idx' = idx + 1)
              /\ ~skipped => (/\ pc' = "onchain_submit"
                              /\ onchain_failed' = onchain_failed
                              /\ gas_price' = P)
      ]_vars

\* a group was skipped after an earlier group was submitted at a price
\* equal to the ceiling
C6_Witness ==
    /\ max_gas_price_gwei # {}
    /\ nonce = initial_nonce + 1
    /\ \E i \in DOMAIN onchain_failed : onchain_failed[i].error = GasCeilingError
    /\ \E i \in DOMAIN calls :
          /\ calls[i].op = "send_raw_transaction"
          /\ ~calls[i].raised
          /\ calls[i].gasPrice = {Val(max_gas_price_gwei) * 1000000000}

\* the broadcasts that returned, in order
Sends ==
    LET Sent(c) == c.op = "send_raw_transaction" /\ ~c.raised
    IN  SelectSeq(calls, Sent)

\* the place of a market in the residual mapping
PlaceOf(cid) ==
    CHOOSE g \in DOMAIN remaining_for_onchain :
        remaining_for_onchain[g].condition_id = cid

\* C7: in one on-chain call the k-th broadcast that returned (0-indexed)
\* was built with nonce initialNonce + k; no two broadcasts share a nonce;
\* broadcasts follow the iteration order of the residual groups
C7_NonceMonotonic ==
    /\ \A k \in DOMAIN Sends : Sends[k].nonce = {initial_nonce + (k - 1)}
    /\ \A j, k \in DOMAIN Sends : j # k => Sends[j].nonce # Sends[k].nonce
    /\ \A j, k \in DOMAIN Sends :
          j < k => PlaceOf(Sends[j].condition_id) < PlaceOf(Sends[k].condition_id)
    /\ \A i \in DOMAIN calls :
          (calls[i].op = "send_raw_transaction" /\ ~calls[i].raised) =>
             \E b \in 1..(i - 1) :
                /\ calls[b].op = "build_transaction"
                /\ calls[b].condition_id = calls[i].condition_id
                /\ calls[b].nonce = calls[i].nonce
                /\ \A m \in (b + 1)..(i - 1) : calls[m].op # "build_transaction"

\* a failed attempt that sent nothing was followed by a broadcast, from a
\* first nonce other than 0
C7_Witness ==
    /\ initial_nonce = 5
    /\ Len(Sends) = 1
    /\ \E i \in DOMAIN calls :
          /\ calls[i].raised
          /\ calls[i].op \in {"build_transaction", "sign_transaction",
                              "send_raw_transaction"}
          /\ calls[i].condition_id # Sends[1].condition_id
          /\ PlaceOf(calls[i].condition_id) < PlaceOf(Sends[1].condition_id)

\* C8: every execute-mode report that follows a successful position fetch
\* carries as total_amount the sum of current_value over the claimable
\* positions, whatever the two settlement paths did
C8_TotalIsPreAttemptValuation ==
    (Returned /\ ~dry_run /\ api.fail = "none") =>
        /\ result.total_amount = SumValues(ClaimableItems(api.data))
        /\ grouped # <<>> => result.total_amount = total_value

\* an execute-mode report with a success, a failure and a positive total
C8_Witness ==
    /\ Returned
    /\ ~dry_run
    /\ result.success # <<>>
    /\ result.failed # <<>>
    /\ result.total_amount > 0

\* C9: the builder keeps a record exactly when it is a dict, is redeemable,
\* has a market id and a positive quantity, and the total is the sum of
\* current_value over the kept records
C9_BuilderFilter ==
    pc \in {"builder_group", "builder_done"} =>
        LET items == ClaimableItems(api.data)
        IN  /\ Len(redeemable_positions) = Len(items)
            /\ \A k \in DOMAIN items :
                 /\ redeemable_positions[k].condition_id = items[k].conditionId
                 /\ redeemable_positions[k].quantity = Val(items[k].size)
                 /\ redeemable_positions[k].current_value = Val(items[k].currentValue)
            /\ total_value = SumValues(items)

\* the spec's example: A with quantity 0 and value 5, B with quantity 2 and
\* value 7 give the single group B and the total 7
C9_Witness ==
    /\ pc = "builder_done"
    /\ api.data = <<ApiItem("A", {0}, {5}, TRUE, FALSE, {1}),
                    ApiItem("B", {2}, {7}, TRUE, FALSE, {})>>
    /\ Len(grouped) = 1
    /\ grouped[1].condition_id = "B"
    /\ total_value = 7

\* the positions of one market, in order
PositionsOf(positions, cid) ==
    LET Test(pos) == pos.condition_id = cid IN SelectSeq(positions, Test)

RECURSIVE TotalLen(_)
TotalLen(grp) ==
    IF grp = <<>> THEN 0 ELSE Len(Head(grp).positions) + TotalLen(Tail(grp))

\* C10: the groups partition the filtered positions: keys are distinct, no
\* group is empty, each group holds exactly the positions that carry its
\* key, in input order, and every position's key is a group
C10_GroupsPartition ==
    pc = "builder_done" =>
        /\ \A g, h \in DOMAIN grouped :
              g # h => grouped[g].condition_id # grouped[h].condition_id
        /\ \A g \in DOMAIN grouped :
              /\ grouped[g].positions # <<>>
              /\ grouped[g].positions =
                    PositionsOf(redeemable_positions, grouped[g].condition_id)
        /\ \A i \in DOMAIN redeemable_positions :
              \E g \in DOMAIN grouped :
                 grouped[g].condition_id = redeemable_positions[i].condition_id
        /\ TotalLen(grouped) = Len(redeemable_positions)

\* positions of two markets arrived interleaved
C10_Witness ==
    /\ pc = "builder_done"
    /\ Len(redeemable_positions) = 3
    /\ redeemable_positions[1].condition_id = redeemable_positions[3].condition_id
    /\ redeemable_positions[1] # redeemable_positions[3]
    /\ redeemable_positions[2].condition_id # redeemable_positions[1].condition_id
    /\ Len(grouped) = 2

\* the residual has been computed in this run
ResidualComputed ==
    \/ pc \in {"onchain", "onchain_loop", "onchain_submit", "aggregate"}
    \/ Returned /\ ~dry_run /\ grouped # <<>>

\* the market ids of a list of entries
IdsOf(entries) == {entries[i].condition_id : i \in DOMAIN entries}

\* C11: the mapping left for the on-chain path is the groups whose market
\* id has no relayed success entry, in the order of the groups; without a
\* relayed success it is the whole mapping, and it is empty when the
\* relayed successes cover every key
C11_ResidualSelection ==
    ResidualComputed =>
        LET NotSettled(g) == g.condition_id \notin IdsOf(gasless_success)
        IN  /\ remaining_for_onchain = SelectSeq(grouped, NotSettled)
            /\ gasless_success = <<>> => remaining_for_onchain = grouped
            /\ (\A g \in DOMAIN grouped :
                   grouped[g].condition_id \in IdsOf(gasless_success))
                  => remaining_for_onchain = <<>>

\* of two groups the relay settled the first and the second is left
C11_Witness ==
    /\ InOnchain
    /\ Len(grouped) = 2
    /\ Len(gasless_success) = 1
    /\ gasless_success[1].condition_id = grouped[1].condition_id
    /\ remaining_for_onchain = <<grouped[2]>>

\* the path-level entries of the relayed path in a list
GaslessNotes(entries) ==
    {i \in DOMAIN entries :
        entries[i].condition_id = None /\ entries[i].mode = "gasless"}

\* C12: an execute-mode report holds exactly one entry with market id null
\* tagged gasless, carrying the reason, when the relayed driver failed
\* outright without a per-group failure, and no such entry otherwise
C12_RelayUnavailabilityReportedOnce ==
    (Returned /\ ~dry_run) =>
        IF gasless_error # None /\ gasless_failed = <<>>
        THEN /\ Cardinality(GaslessNotes(result.failed)) = 1
             /\ \A i \in GaslessNotes(result.failed) :
                   result.failed[i].error = gasless_error
        ELSE GaslessNotes(result.failed) = {}

\* the relay was unavailable and the chain path settled a group
C12_Witness ==
    /\ Returned
    /\ gasless_error # None
    /\ \E i \in DOMAIN result.success : result.success[i].mode = "onchain"
    /\ \E i \in DOMAIN result.failed : result.failed[i].mode = "onchain"

\* C13 as stated: relayed successes precede on-chain successes, and every
\* failure entry tagged gasless precedes every failure entry tagged onchain
C13_GaslessEntriesFirst ==
    Returned =>
        /\ \A i, j \in DOMAIN result.success :
              (result.success[i].mode = "gasless"
                 /\ result.success[j].mode = "onchain") => i < j
        /\ \A i, j \in DOMAIN result.failed :
              (result.failed[i].mode = "gasless"
                 /\ result.failed[j].mode = "onchain") => i < j

\* C13 amended: relayed successes precede on-chain successes; every
\* per-group failure entry tagged gasless precedes every failure entry
\* tagged onchain; the path-level gasless entry, when there is one, is the
\* last entry of failed
C13_ResultOrdering ==
    Returned =>
        /\ \A i, j \in DOMAIN result.success :
              (result.success[i].mode = "gasless"
                 /\ result.success[j].mode = "onchain") => i < j
        /\ \A i, j \in DOMAIN result.failed :
              (/\ result.failed[i].mode = "gasless"
               /\ result.failed[i].condition_id # None
               /\ result.failed[j].mode = "onchain") => i < j
        /\ \A i \in GaslessNotes(result.failed) : i = Len(result.failed)
        /\ ~dry_run /\ grouped # <<>> =>
              /\ SubSeq(result.success, 1, Len(gasless_success)) = gasless_success
              /\ SubSeq(result.failed, 1, Len(gasless_failed)) = gasless_failed

\* a report with a relayed and an on-chain success, and a relayed and an
\* on-chain failure
C13_Witness ==
    /\ Returned
    /\ \E i, j \in DOMAIN result.failed :
          /\ result.failed[i].mode = "gasless"
          /\ result.failed[j].mode = "onchain"
    /\ \E i \in DOMAIN result.success : result.success[i].mode = "onchain"

\* the run got past the validation of its arguments
Validated == pc # "call" /\ user_address = "valid" /\ private_key = "key"

\* C14: when the position fetch fails, claim_all_winnings returns a report
\* with no success, one failed entry with market id null tagged data-api
\* carrying the error, total 0, and contacts no settlement path
C14_DataSourceFailure ==
    (Validated /\ api.fail # "none" /\ pc # "collect") =>
        /\ Returned
        /\ result.success = <<>>
        /\ Len(result.failed) = 1
        /\ result.failed[1].condition_id = None
        /\ result.failed[1].mode = "data-api"
        /\ result.failed[1].error = api.fail
        /\ result.total_amount = 0
        /\ \A i \in DOMAIN calls : calls[i].op \notin RelayOps \cup ChainOps

\* an execute-mode run whose fetch got a non-200 answer has returned
C14_Witness ==
    /\ Returned
    /\ ~dry_run
    /\ api.fail = "status"
    /\ fallback_rpc_url = "rpc"

\* C15: with a valid address and a non-blank key claim_all_winnings never
\* raises, whichever external call fails
C15_NeverRaises ==
    (pc = "done" /\ user_address = "valid" /\ private_key = "key") =>
        result.kind = "return"

\* C16: with an invalid address or a blank key claim_all_winnings raises
\* InvalidAddressError or ValueError, in both modes, before any call to the
\* position source, the relay or the chain
C16_ValidationBeforeIO ==
    /\ (pc # "call" /\ (user_address = "invalid" \/ private_key = " ")) =>
          /\ pc = "done"
          /\ result.kind = "raise"
          /\ result.exc = IF user_address = "invalid"
                          THEN "InvalidAddressError" ELSE "ValueError"
          /\ calls = <<>>
    /\ pc = "call" => calls = <<>>

\* an execute-mode call with a blank key has raised
C16_Witness ==
    /\ pc = "done"
    /\ ~dry_run
    /\ user_address = "valid"
    /\ private_key = " "
    /\ result.kind = "raise"

\* the chain calls of the log, and the ones that raised
ChainCalls == {i \in DOMAIN calls : calls[i].op \in ChainOps}

\* the relay is unavailable, the node answers, there is no gas ceiling, and
\* every transaction is built, signed, sent and confirmed with status 1
FallbackAllConfirmed ==
    /\ Returned
    /\ ~dry_run
    /\ grouped # <<>>
    /\ gasless_error # None
    /\ max_gas_price_gwei = {}
    /\ \E i \in ChainCalls :
          calls[i].op = "get_transaction_count" /\ ~calls[i].raised
    /\ \A i \in ChainCalls :
          /\ calls[i].raised => calls[i].op = "estimate_gas"
          /\ calls[i].op = "wait_for_transaction_receipt"
                => calls[i].status = {1}

\* C17: in execute mode with the relay unavailable, a reachable node, no
\* gas ceiling and every transaction confirmed with status 1, success holds
\* exactly one on-chain entry per claim group, in the order of the groups,
\* failed holds exactly the path-level relay entry, and total_amount is the
\* total of the claimable positions
C17_FallbackScenario ==
    FallbackAllConfirmed =>
        /\ Len(result.success) = Len(grouped)
        /\ \A g \in DOMAIN grouped :
              /\ result.success[g].condition_id = grouped[g].condition_id
              /\ result.success[g].mode = "onchain"
        /\ Len(result.failed) = 1
        /\ result.failed[1].condition_id = None
        /\ result.failed[1].mode = "gasless"
        /\ result.failed[1].error = gasless_error
        /\ result.total_amount = SumValues(ClaimableItems(api.data))

\* the example: two claimable positions of one market and a position that
\* is not redeemable, settled by one confirmed transaction
C17_Witness ==
    /\ FallbackAllConfirmed
    /\ Len(api.data) = 3
    /\ Len(ClaimableItems(api.data)) = 2
    /\ Len(grouped) = 1
    /\ Len(grouped[1].positions) = 2
    /\ result.total_amount = 7

\* C18: when the fetch succeeds and no position passes the filter,
\* claim_all_winnings returns success = [], failed = [], total_amount = 0,
\* in both modes, without raising and without a call to the relay or to the
\* chain
C18_NothingToClaim ==
    (Validated /\ pc # "collect" /\ api.fail = "none"
        /\ ClaimableItems(api.data) = <<>>) =>
        /\ Returned
        /\ result.success = <<>>
        /\ result.failed = <<>>
        /\ result.total_amount = 0
        /\ \A i \in DOMAIN calls : calls[i].op \notin RelayOps \cup ChainOps

\* an execute-mode run over positions none of which is redeemable returned
C18_Witness ==
    /\ Returned
    /\ ~dry_run
    /\ fallback_rpc_url = "rpc"
    /\ api.fail = "none"
    /\ api.data # <<>>
    /\ ClaimableItems(api.data) = <<>>

\* the connectivity check of the on-chain driver answered "not connected":
\* is_connected was called and the nonce was never asked for
ConnectivityCheckFailed ==
    /\ Returned
    /\ \E i \in ChainCalls : calls[i].op = "is_connected"
    /\ \A i \in ChainCalls : calls[i].op # "get_transaction_count"

\* the entries of a list tagged on-chain
OnchainEntries(entries) ==
    {i \in DOMAIN entries : entries[i].mode = "onchain"}

\* C19: the connectivity of the on-chain path is checked once, before any
\* group is processed; when the check fails no nonce fetch, gas-price
\* fetch, build or broadcast happens, failed gains exactly one entry with
\* market id null tagged onchain, and the relayed successes and relayed
\* per-group failures recorded before are all in the report
C19_OnchainUnavailableOnce ==
    /\ Cardinality({i \in ChainCalls : calls[i].op = "is_connected"}) <= 1
    /\ \A i, j \in ChainCalls :
          (calls[i].op = "is_connected" /\ calls[j].op # "is_connected")
              => i < j
    /\ ConnectivityCheckFailed =>
          /\ \A i \in ChainCalls : calls[i].op = "is_connected"
          /\ Cardinality(OnchainEntries(result.failed)) = 1
          /\ \A i \in OnchainEntries(result.failed) :
                /\ result.failed[i].condition_id = None
                /\ i = Len(gasless_failed) + 1
          /\ OnchainEntries(result.success) = {}
          /\ result.success = gasless_success
          /\ SubSeq(result.failed, 1, Len(gasless_failed)) = gasless_failed
          /\ Len(result.failed) =
                Len(gasless_failed) + 1
                  + (IF gasless_error # None /\ gasless_failed = <<>>
                     THEN 1 ELSE 0)

\* the relay settled one group and failed on another, and the node was
\* not connected
C19_Witness ==
    /\ ConnectivityCheckFailed
    /\ gasless_success # <<>>
    /\ gasless_failed # <<>>
    /\ Len(result.failed) = 2

\* fetch_active_markets has returned its list
MarketsReturned == pc = "markets_done" /\ fetch_result.kind = "return"

\* the ids of a list of markets that are not null, with repetitions counted
NonNullIds(markets) ==
    {i \in DOMAIN markets : markets[i].id # {}}

\* C20: fetch_active_markets asks for offsets 0, 500, 1000, ... with limit
\* 500 and sends at most MAX_PAGES requests; it goes on to another request
\* only after a page of at least the size asked that brought a new item,
\* so it stops at the first page that is empty, shorter than the page size
\* or without a new item; and the list it returns never holds two items
\* with the same non-null id
C20_Pagination ==
    /\ Len(requests) <= MAX_PAGES
    /\ \A i \in DOMAIN requests :
          /\ requests[i].offset = (i - 1) * MAX_PAGE_SIZE
          /\ requests[i].limit = MAX_PAGE_SIZE
    /\ (pc = "markets_loop" /\ requests # <<>>) =>
          /\ len_data >= MAX_PAGE_SIZE
          /\ new_items > 0
    /\ (MarketsReturned /\ Len(requests) < MAX_PAGES) =>
          \/ len_data = 0
          \/ len_data < MAX_PAGE_SIZE
          \/ new_items = 0
    /\ MarketsReturned =>
          \A i, j \in NonNullIds(fetch_result.value) :
              fetch_result.value[i].id = fetch_result.value[j].id => i = j

\* the list is returned after MAX_PAGES full pages that each brought one
\* new item, one of them with an id
C20_Witness ==
    /\ MarketsReturned
    /\ Len(requests) = MAX_PAGES
    /\ requests[MAX_PAGES].offset = 9500
    /\ len_data = MAX_PAGE_SIZE
    /\ new_items = 1
    /\ seen_ids # {}
    /\ Len(fetch_result.value) = MAX_PAGES

\* the argument rpc_url, or the environment variable, is given and not blank
ExplicitGiven == explicit_rpc_url \notin {None, "", " "}
EnvGiven == env_url \notin {"", " "}

\* get_usdc_balance got as far as choosing an endpoint and is past it
EndpointSettled ==
    /\ pc \in {"balance_read", "balance_done"}
    /\ balance_result.exc \notin
          {"InvalidAddressError", "ValueError"}
    /\ ~(balance_result.exc = "RuntimeError" /\ probes = <<>>)

\* the URLs probed, in order
ProbedUrls == [i \in DOMAIN probes |-> probes[i].url]

\* C21: an explicit non-blank rpc_url is used in preference to the
\* environment variable; the public endpoints are tried only when both are
\* absent, in list order, and the first reachable one is used; a configured
\* URL that is unreachable raises RPCConfigError with no public endpoint
\* tried; RPCConfigError is raised when no public endpoint is reachable
C21_RpcResolution ==
    EndpointSettled =>
        /\ ExplicitGiven => ProbedUrls = <<"explicit">>
        /\ (~ExplicitGiven /\ EnvGiven) => ProbedUrls = <<"env">>
        /\ (ExplicitGiven \/ EnvGiven) =>
              IF probes[1].outcome = "true"
              THEN w3 = probes[1].url
              ELSE /\ pc = "balance_done"
                   /\ balance_result.kind = "raise"
                   /\ balance_result.exc = "RPCConfigError"
        /\ (~ExplicitGiven /\ ~EnvGiven) =>
              /\ ProbedUrls =
                    SubSeq(PUBLIC_RPC_ENDPOINTS[cfg], 1, Len(probes))
              /\ \A i \in 1..(Len(probes) - 1) : probes[i].outcome # "true"
              /\ IF probes[Len(probes)].outcome = "true"
                 THEN /\ w3 = probes[Len(probes)].url
                      /\ resolved_rpc_url = w3
                 ELSE /\ Len(probes) = Len(PUBLIC_RPC_ENDPOINTS[cfg])
                      /\ balance_result.kind = "raise"
                      /\ balance_result.exc = "RPCConfigError"

\* the on-chain driver got its nonce and the run is past the driver
OnchainDriverLeft ==
    /\ pc \in {"aggregate", "done"}
    /\ \E i \in ChainCalls :
          calls[i].op = "get_transaction_count" /\ ~calls[i].raised

\* a chain call made for the market raised
RaisedFor(cid) ==
    \E i \in ChainCalls : calls[i].condition_id = cid /\ calls[i].raised

\* the loop of the on-chain driver reached the market
ReachedOnchain(cid) ==
    \E i \in ChainCalls :
        calls[i].condition_id = cid /\ calls[i].op = "gas_price"

\* C22: for every residual group an exception raised by its gas-price
\* fetch, build, gas estimation, signing, broadcast or receipt wait is
\* recorded as one on-chain failure entry for its market id, is not raised
\* out of the on-chain driver, and every later group is still processed
C22_OnchainErrorsContained ==
    OnchainDriverLeft =>
        \A g \in DOMAIN remaining_for_onchain :
            RaisedFor(remaining_for_onchain[g].condition_id) =>
                /\ Len(EntriesOf(onchain_failed,
                                 remaining_for_onchain[g].condition_id)) = 1
                /\ EntriesOf(onchain_success,
                             remaining_for_onchain[g].condition_id) = <<>>
                /\ result.kind # "raise"
                /\ \A i \in DOMAIN all_failed :
                      ~(all_failed[i].mode = "onchain"
                          /\ all_failed[i].condition_id = None)
                /\ \A h \in DOMAIN remaining_for_onchain :
                      h > g => ReachedOnchain(
                                   remaining_for_onchain[h].condition_id)

\* the redeem_position calls made so far, in order
Redeems ==
    LET IsRedeem(c) == c.op = "redeem_position" IN SelectSeq(calls, IsRedeem)

\* the relay client was constructed and the relayed driver has returned
GaslessDriverReturned ==
    /\ pc \in {"residual", "onchain", "onchain_loop", "onchain_submit",
               "aggregate", "done"}
    /\ \E i \in DOMAIN calls :
          calls[i].op = "PolymarketGaslessWeb3Client" /\ ~calls[i].raised

\* C23: with the relay client constructed the relayed driver calls
\* redeem_position once per claim group, in the order of the groups; a
\* call that raises gives one gasless failure entry for its market id and
\* the remaining groups are still attempted, a call that returns gives
\* one success entry, so successes plus failures is the number of groups
C23_RelayErrorsContained ==
    /\ Len(Redeems) <= Len(grouped)
    /\ \A i \in DOMAIN Redeems :
          /\ Redeems[i].condition_id = grouped[i].condition_id
          /\ IF Redeems[i].raised
             THEN /\ Len(EntriesOf(gasless_failed,
                                   Redeems[i].condition_id)) = 1
                  /\ EntriesOf(gasless_success,
                               Redeems[i].condition_id) = <<>>
             ELSE /\ Len(EntriesOf(gasless_success,
                                   Redeems[i].condition_id)) = 1
                  /\ EntriesOf(gasless_failed,
                               Redeems[i].condition_id) = <<>>
    /\ \A i \in DOMAIN gasless_success : gasless_success[i].mode = "gasless"
    /\ \A i \in DOMAIN gasless_failed : gasless_failed[i].mode = "gasless"
    /\ Len(gasless_success) + Len(gasless_failed) = Len(Redeems)
    /\ GaslessDriverReturned => Len(Redeems) = Len(grouped)

\* the call for the first of two groups raised and the second was settled
C23_Witness ==
    /\ GaslessDriverReturned
    /\ Len(grouped) = 2
    /\ Redeems[1].raised
    /\ ~Redeems[2].raised
    /\ Len(gasless_failed) = 1
    /\ Len(gasless_success) = 1

\* the receipt waits of the log
Waits == {i \in ChainCalls : calls[i].op = "wait_for_transaction_receipt"}

\* C24: the nonce counter is the first nonce plus the number of broadcasts
\* that returned, also after a receipt with a status other than 1 and after
\* a receipt wait that raised, and it never decreases; an exception before
\* the broadcast returned leaves it unchanged; a receipt with a status
\* other than 1 gives a failure entry for the market id that carries the
\* transaction reference
C24_NonceNeverRolledBack ==
    /\ [](nonce = initial_nonce + Len(Sends))
    /\ [](\A i \in Waits :
            (~calls[i].raised /\ calls[i].status # {1}) =>
                LET entries == EntriesOf(onchain_failed, calls[i].condition_id)
                IN  /\ Len(entries) = 1
                    /\ entries[1].mode = "onchain"
                    /\ entries[1].tx_hash = calls[i].nonce
                    /\ entries[1].error = StatusError)
    /\ [][initial_nonce' = initial_nonce => nonce' >= nonce]_vars
    /\ [][(pc = "onchain_submit" /\ Len(Sends') = Len(Sends))
             => nonce' = nonce]_vars

\* one receipt had status 0, the wait for another raised, and the counter
\* stands two above the first nonce
C24_Witness ==
    /\ pc = "onchain_loop"
    /\ nonce = initial_nonce + 2
    /\ \E i \in Waits : ~calls[i].raised /\ calls[i].status = {0}
    /\ \E i \in Waits : calls[i].raised
    /\ Len(onchain_failed) = 2

\* the gas-price reads that answered a price over the ceiling
Rejections ==
    {i \in ChainCalls :
        /\ calls[i].op = "gas_price"
        /\ ~calls[i].raised
        /\ max_gas_price_gwei # {}
        /\ Val(calls[i].gasPrice) > Val(max_gas_price_gwei) * GWEI}

\* the calls that construct, sign or broadcast a transaction
SubmitOps ==
    {"build_transaction", "estimate_gas", "sign_transaction",
     "send_raw_transaction", "wait_for_transaction_receipt"}

\* C25: for a group whose fetched price is over the ceiling no transaction
\* is built, signed or broadcast, exactly one failure entry is recorded,
\* and the loop goes on with the next group
C25_CeilingRejectsBeforeBuild ==
    \A i \in Rejections :
        /\ \A j \in ChainCalls :
              calls[j].condition_id = calls[i].condition_id
                  => calls[j].op \notin SubmitOps
        /\ Len(EntriesOf(onchain_failed, calls[i].condition_id)) = 1
        /\ EntriesOf(onchain_failed, calls[i].condition_id)[1].error
              = GasCeilingError
        /\ EntriesOf(onchain_success, calls[i].condition_id) = <<>>
        /\ i = Len(calls) =>
              /\ result.kind # "raise"
              /\ pc \in {"onchain_loop", "aggregate", "done"}
              /\ pc = "onchain_loop"
                    => idx = PlaceOf(calls[i].condition_id) + 1
              /\ pc # "onchain_loop"
                    => PlaceOf(calls[i].condition_id)
                          = Len(remaining_for_onchain)

\* the first group was rejected and the transaction of the second one,
\* whose price was within the ceiling, was sent
C25_Witness ==
    /\ Len(remaining_for_onchain) = 2
    /\ \E i \in Rejections :
          calls[i].condition_id = remaining_for_onchain[1].condition_id
    /\ Len(Sends) = 1
    /\ Sends[1].condition_id = remaining_for_onchain[2].condition_id
    /\ Val(Sends[1].gasPrice) <= Val(max_gas_price_gwei) * GWEI

\* the gas-price reads made for a market that answered a price
PriceReads(cid) ==
    {i \in ChainCalls :
        /\ calls[i].op = "gas_price"
        /\ ~calls[i].raised
        /\ calls[i].condition_id = cid}

\* the market has the failure entry of the ceiling
CeilingEntryOf(cid) ==
    \E i \in DOMAIN onchain_failed :
        /\ onchain_failed[i].condition_id = cid
        /\ onchain_failed[i].error = GasCeilingError

\* C26: the gas price is read once in the iteration of each residual
\* group; the group is rejected exactly when its own price is over the
\* ceiling, and its transaction carries its own price, whatever the price
\* of the other groups was; without a ceiling no group is rejected
C26_PricePerGroup ==
    /\ \A g \in DOMAIN remaining_for_onchain :
          LET cid == remaining_for_onchain[g].condition_id
          IN  /\ Cardinality(PriceReads(cid)) <= 1
              /\ CeilingEntryOf(cid) <=> PriceReads(cid) \cap Rejections # {}
              /\ \A j \in ChainCalls :
                    (calls[j].condition_id = cid
                        /\ calls[j].op \in SubmitOps \ {"estimate_gas"}) =>
                       \E i \in PriceReads(cid) :
                          /\ i < j
                          /\ calls[j].gasPrice = calls[i].gasPrice
    /\ max_gas_price_gwei = {} =>
          \A i \in DOMAIN result.failed :
              result.failed[i].error # GasCeilingError
    /\ max_gas_price_gwei = {} =>
          \A i \in DOMAIN onchain_failed :
              onchain_failed[i].error # GasCeilingError

\* the price rose between two groups: the first was sent at its price and
\* the second was rejected
C26_Witness ==
    /\ Len(remaining_for_onchain) = 2
    /\ Len(Sends) = 1
    /\ Sends[1].condition_id = remaining_for_onchain[1].condition_id
    /\ Sends[1].gasPrice = {GWEI}
    /\ \E i \in Rejections :
          /\ calls[i].condition_id = remaining_for_onchain[2].condition_id
          /\ calls[i].gasPrice = {GWEI + 1}

\* the positions of the residual group of a market
ResidualPositions(cid) ==
    remaining_for_onchain[PlaceOf(cid)].positions

\* the outcome indices of a group that are not null and not negative
ValidIndices(positions) ==
    {Val(positions[k].outcome_index) :
        k \in {j \in DOMAIN positions :
                 /\ positions[j].outcome_index # {}
                 /\ \A v \in positions[j].outcome_index : v >= 0}}

\* the calls that carry the index set of redeemPositions
Builds == {i \in ChainCalls : calls[i].op = "build_transaction"}

\* C27: the index set passed to redeemPositions for a residual group is
\* { 2^i : i a non-negative outcome index of a position of the group },
\* without duplicates and ascending, and [1, 2] when the group has no valid
\* outcome index
C27_OnchainIndexSet ==
    \A b \in Builds :
        LET valid == ValidIndices(ResidualPositions(calls[b].condition_id))
            sets == calls[b].index_sets
        IN  IF valid = {}
            THEN sets = <<1, 2>>
            ELSE /\ {sets[k] : k \in DOMAIN sets} = {2 ^ i : i \in valid}
                 /\ \A k, l \in DOMAIN sets : k < l => sets[k] < sets[l]

\* a group with the outcome indices 0, 1 and 2 was built with [1, 2, 4]
C27_Witness ==
    \E b \in Builds :
        /\ calls[b].index_sets = <<1, 2, 4>>
        /\ Len(ResidualPositions(calls[b].condition_id)) = 3

\* the positions of the claim group of a market
GroupPositionsOf(cid) ==
    LET g == CHOOSE k \in DOMAIN grouped : grouped[k].condition_id = cid
    IN  grouped[g].positions

\* the sum of the quantities of the positions with a given outcome index
RECURSIVE QuantityAt(_, _)
QuantityAt(positions, i) ==
    IF positions = <<>> THEN 0
    ELSE (IF Head(positions).outcome_index = {i}
          THEN Head(positions).quantity ELSE 0)
         + QuantityAt(Tail(positions), i)

\* the redeem_position calls of the log
RedeemCalls == {i \in DOMAIN calls : calls[i].op = "redeem_position"}

\* C28: the amounts passed to redeem_position for a claim group hold, at
\* the outcome indices 0 and 1, the sum of the quantities of the positions
\* of the group with that outcome index; positions with a null outcome
\* index add nothing; the flag passed is true exactly when a position of
\* the group has negative_risk true
C28_RelayAmounts ==
    \A r \in RedeemCalls :
        LET positions == GroupPositionsOf(calls[r].condition_id)
        IN  /\ Len(calls[r].amounts) = 2
            /\ calls[r].amounts[1] = QuantityAt(positions, 0)
            /\ calls[r].amounts[2] = QuantityAt(positions, 1)
            /\ calls[r].neg_risk <=>
                  \E k \in DOMAIN positions : positions[k].negative_risk

\* two positions with outcome index 1, one of them negative-risk, and one
\* with outcome index 0: the quantities 4 and 2 add up
C28_Witness ==
    \E r \in RedeemCalls :
        /\ calls[r].amounts = <<3, 6>>
        /\ calls[r].neg_risk
        /\ Len(GroupPositionsOf(calls[r].condition_id)) = 3

\* the relay client was constructed in this run
RelayConstructed ==
    \E i \in DOMAIN calls :
        calls[i].op = "PolymarketGaslessWeb3Client" /\ ~calls[i].raised

\* C29: while the relayed driver runs, and when it has just returned, no
\* chain call has been made and the nonce and the gas price are untouched;
\* its calls carry no nonce and no gas price; and whatever the gas ceiling
\* is, it attempts every group once and a group succeeds exactly when its
\* call returned
C29_RelayIgnoresChain ==
    /\ (InGasless \/ pc = "residual") =>
          /\ \A i \in DOMAIN calls : calls[i].op \notin ChainOps
          /\ nonce = 0
          /\ gas_price = 0
          /\ RelayConstructed => Len(Redeems) = idx - 1
    /\ \A r \in RedeemCalls :
          /\ calls[r].nonce = {}
          /\ calls[r].gasPrice = {}
          /\ calls[r].gas = {}
          /\ \A i \in ChainCalls : r < i
          /\ calls[r].raised <=>
                \E k \in DOMAIN gasless_failed :
                    gasless_failed[k].condition_id = calls[r].condition_id
    /\ (pc = "residual" /\ RelayConstructed) =>
          [k \in DOMAIN Redeems |-> Redeems[k].condition_id]
             = [k \in DOMAIN grouped |-> grouped[k].condition_id]

\* under a ceiling of 1 gwei the relayed driver attempted both groups and
\* settled one of them
C29_Witness ==
    /\ pc = "residual"
    /\ max_gas_price_gwei = {1}
    /\ Len(grouped) = 2
    /\ Len(Redeems) = 2
    /\ Len(gasless_success) = 1
    /\ Len(gasless_failed) = 1

Broadcasts == {i \in ChainCalls : calls[i].op = "send_raw_transaction"}

\* the market ids of the claim groups
GroupIds == {grouped[g].condition_id : g \in DOMAIN grouped}

\* the entries of a list for one market and one path
PathEntriesOf(entries, cid, mode) ==
    LET Test(e) == e.condition_id = cid /\ e.mode = mode
    IN  SelectSeq(entries, Test)

\* C31: in one run each market id is the subject of at most one relayed
\* redeem_position call and of at most one broadcast; the lists of each
\* driver and the report hold at most one entry per market id per path,
\* hence at most two entries per market id in success and failed together
C31_NoRetryWithinRun ==
    \A cid \in GroupIds :
        /\ Cardinality({r \in RedeemCalls : calls[r].condition_id = cid}) <= 1
        /\ Cardinality({b \in Broadcasts : calls[b].condition_id = cid}) <= 1
        /\ Len(EntriesOf(gasless_success \o gasless_failed, cid)) <= 1
        /\ Len(EntriesOf(onchain_success \o onchain_failed, cid)) <= 1
        /\ \A mode \in {"gasless", "onchain"} :
              /\ Len(PathEntriesOf(all_success \o all_failed, cid, mode)) <= 1
              /\ Len(PathEntriesOf(result.success \o result.failed,
                                   cid, mode)) <= 1
        /\ Len(EntriesOf(result.success \o result.failed, cid)) <= 2

\* the relayed call of a market raised, its transaction was then sent and
\* its receipt wait raised: the report holds the two failures of the market
C31_Witness ==
    /\ Returned
    /\ \E cid \in GroupIds :
          /\ Len(EntriesOf(result.failed, cid)) = 2
          /\ \E r \in RedeemCalls : calls[r].condition_id = cid
          /\ \E b \in Broadcasts :
                calls[b].condition_id = cid /\ ~calls[b].raised

\* the market ids of a list of positions or entries, in order
IdsIn(seq) == [i \in DOMAIN seq |-> seq[i].condition_id]

\* no market id comes back after another market id
Contiguous(ids) ==
    \A i, j, k \in DOMAIN ids :
        (i < j /\ j < k /\ ids[i] = ids[k]) => ids[j] = ids[i]

\* a dry run over claimable positions has returned its report
DryRunReturned == Returned /\ dry_run /\ "pending" \in result.keys

\* C32 as stated: the pending list of a dry run is the concatenation, group
\* after group in insertion order, of the positions of the claim groups, so
\* the entries of one market are contiguous
C32_PendingIsFlattening ==
    DryRunReturned =>
        /\ result.pending
              = Pending(Flatten(GroupByCondition(redeemable_positions)))
        /\ Contiguous(IdsIn(result.pending))

\* C32 amended: the pending list of a dry run holds one entry per claimable
\* position in the order of the position source; the entries of one market
\* are in the order of its claim group; the list is the group-after-group
\* flattening exactly when the source does not interleave the markets
C32_PendingInSourceOrder ==
    DryRunReturned =>
        LET items == ClaimableItems(api.data)
            groups == GroupByCondition(redeemable_positions)
        IN  /\ Len(result.pending) = Len(items)
            /\ IdsIn(result.pending) = [i \in DOMAIN items |-> items[i].conditionId]
            /\ \A i \in DOMAIN items :
                  /\ result.pending[i].quantity = Val(items[i].size)
                  /\ result.pending[i].current_value = Val(items[i].currentValue)
            /\ \A g \in DOMAIN groups :
                  EntriesOf(result.pending, groups[g].condition_id)
                     = Pending(groups[g].positions)
            /\ (result.pending = Pending(Flatten(groups)))
                  <=> Contiguous([i \in DOMAIN items |-> items[i].conditionId])

\* the source returned a position of another market between two positions
\* of one market, and the dry run listed them in that order
C32_Witness ==
    /\ DryRunReturned
    /\ Len(result.pending) = 3
    /\ result.pending[1].condition_id = result.pending[3].condition_id
    /\ result.pending[2].condition_id # result.pending[1].condition_id
    /\ ~Contiguous(IdsIn(result.pending))

\* the market has a success entry of the relayed path in the list
RelayedSuccess(entries, cid) == PathEntriesOf(entries, cid, "gasless") # <<>>

\* C33: in every report no market id appears more than once in the success
\* list, and a market id with a relayed success entry has no on-chain
\* entry, neither in success nor in failed
C33_NoDoubleSettlement ==
    Returned =>
        \A cid \in GroupIds :
            /\ Len(EntriesOf(result.success, cid)) <= 1
            /\ RelayedSuccess(result.success, cid) =>
                  PathEntriesOf(result.success \o result.failed,
                                cid, "onchain") = <<>>

\* the relay settled one market and failed on another one, which was then
\* settled on chain: two success entries, for two market ids
C33_Witness ==
    /\ Returned
    /\ Len(result.success) = 2
    /\ \E cid \in GroupIds :
          /\ RelayedSuccess(result.success, cid)
          /\ EntriesOf(result.failed, cid) = <<>>
    /\ \E cid \in GroupIds :
          /\ PathEntriesOf(result.failed, cid, "gasless") # <<>>
          /\ PathEntriesOf(result.success, cid, "onchain") # <<>>

\* the calls that sign or broadcast a transaction
Signed ==
    {i \in ChainCalls : calls[i].op \in {"sign_transaction", "send_raw_transaction"}}

\* the gas-price reads of the log, raised or not
AllPriceReads == {i \in ChainCalls : calls[i].op = "gas_price"}

\* C34: with a ceiling supplied, every transaction the on-chain driver
\* signs or broadcasts carries a gasPrice of at most ceiling * 10^9 wei,
\* and that gasPrice is the price of the one read made for its group, which
\* is the last read before the transaction: no price is read between the
\* admission and the construction
C34_BroadcastWithinCeiling ==
    max_gas_price_gwei # {} =>
        \A i \in Signed :
            /\ Val(calls[i].gasPrice) <= Val(max_gas_price_gwei) * GWEI
            /\ \E r \in AllPriceReads :
                  /\ r < i
                  /\ \A q \in AllPriceReads : q < i => q <= r
                  /\ ~calls[r].raised
                  /\ calls[r].condition_id = calls[i].condition_id
                  /\ calls[r].gasPrice = calls[i].gasPrice
                  /\ r \notin Rejections
                  /\ \A q \in AllPriceReads :
                        calls[q].condition_id = calls[i].condition_id => q = r

\* under a ceiling of 1 gwei two transactions were broadcast, one at the
\* ceiling and one below it
C34_Witness ==
    /\ max_gas_price_gwei = {1}
    /\ Len(Sends) = 2
    /\ {Sends[1].gasPrice, Sends[2].gasPrice} = {{GWEI}, {GWEI - 1}}

\* the report has an entry that names no market
PathLevelEntry ==
    \E i \in DOMAIN result.failed : result.failed[i].condition_id = None

\* the market ids of the groups that have no entry in the report
Unreported ==
    {cid \in GroupIds : EntriesOf(result.success \o result.failed, cid) = <<>>}

\* C35: an execute-mode report over at least one claim group names every
\* group's market id in success or failed, or holds a path-level entry in
\* failed; with the relay client constructed every group is named, and with
\* the relay unavailable the path-level entry of the relay is there
C35_ReportCoverage ==
    (Returned /\ ~dry_run /\ grouped # <<>>) =>
        /\ Unreported = {} \/ PathLevelEntry
        /\ RelayConstructed => Unreported = {}
        /\ ~RelayConstructed =>
              \E i \in DOMAIN result.failed :
                  /\ result.failed[i].condition_id = None
                  /\ result.failed[i].mode = "gasless"

\* the relay was unavailable and the on-chain path unreachable: of the two
\* groups none is named, and the report holds the two path-level entries
C35_Witness ==
    /\ Returned
    /\ ~dry_run
    /\ Len(grouped) = 2
    /\ Unreported = GroupIds
    /\ Len(result.failed) = 2
    /\ \A i \in DOMAIN result.failed : result.failed[i].condition_id = None

\* C36: in every execute-mode report each market id for which the on-chain
\* driver broadcast a transaction has an on-chain entry, in success or in
\* failed, also when the iteration of a later group ended with an
\* exception
C36_BroadcastsReported ==
    (Returned /\ ~dry_run) =>
        \A b \in Broadcasts :
            ~calls[b].raised =>
                PathEntriesOf(result.success \o result.failed,
                              calls[b].condition_id, "onchain") # <<>>

\* the claimable records of the response that belong to a market
ClaimableOf(cid) == OfMarket(ClaimableItems(api.data), cid)

\* the outcomeIndex values of records that are not null and not negative
RawIndices(items) ==
    {Val(items[k].outcomeIndex) :
        k \in {j \in DOMAIN items :
                 /\ items[j].outcomeIndex # {}
                 /\ \A v \in items[j].outcomeIndex : v >= 0}}

\* the sum of the sizes of the records with a given outcomeIndex
RECURSIVE SizeAt(_, _)
SizeAt(items, i) ==
    IF items = <<>> THEN 0
    ELSE (IF Head(items).outcomeIndex = {i}
          THEN Val(Head(items).size) ELSE 0)
         + SizeAt(Tail(items), i)

\* get_all_positions was called
PositionsFetched ==
    \E i \in DOMAIN calls : calls[i].op = "get_all_positions"

\* C37: the outcomeIndex of a raw record, 0 included, is the outcome_index
\* of the claimable position made from it; the index set built for a market
\* is { 2^i : i an outcomeIndex of its claimable records }, so records with
\* the indices 0 and 1 give [1, 2]; and the amounts relayed for a market
\* hold at index 0 the sizes of its records with outcomeIndex 0
C37_OutcomeIndexSurvives ==
    (PositionsFetched /\ api.fail = "none") =>
        LET items == ClaimableItems(api.data)
        IN  /\ Len(redeemable_positions) = Len(items)
            /\ \A k \in DOMAIN redeemable_positions :
                  redeemable_positions[k].outcome_index = items[k].outcomeIndex
            /\ \A b \in Builds :
                  LET raw == RawIndices(ClaimableOf(calls[b].condition_id))
                      sets == calls[b].index_sets
                  IN  raw # {} =>
                         {sets[k] : k \in DOMAIN sets} = {2 ^ i : i \in raw}
            /\ \A r \in RedeemCalls :
                  /\ calls[r].amounts[1]
                        = SizeAt(ClaimableOf(calls[r].condition_id), 0)
                  /\ calls[r].amounts[2]
                        = SizeAt(ClaimableOf(calls[r].condition_id), 1)

\* the place of a control point in the order of claim_all_winnings: entry,
\* fetch, mode, relayed path, residual, on-chain path, report, end
PathRank(at) ==
    CASE at = "call" -> 0
      [] at = "collect" -> 1
      [] at = "mode" -> 2
      [] at = "gasless" -> 3
      [] at = "gasless_loop" -> 4
      [] at = "residual" -> 5
      [] at = "onchain" -> 6
      [] at \in {"onchain_loop", "onchain_submit"} -> 7
      [] at = "aggregate" -> 8
      [] OTHER -> 9

\* how far the run is: the path, then the group inside the path's loop,
\* then the half of the iteration
Progress(at, i) ==
    PathRank(at) * 100 + 2 * i + (IF at = "onchain_submit" THEN 1 ELSE 0)

\* claim_all_winnings returned a report or raised
Ended == pc = "done" /\ result.kind \in {"return", "raise"}

\* C38: when every external call returns or raises, claim_all_winnings
\* eventually returns a report or raises; every step moves forward in the
\* order path, group, so no step goes back to an earlier group or an
\* earlier path; a loop that stays in its path moves to the next group; and
\* each group is visited at most once per path
C38_RunEnds ==
    /\ <>Ended
    /\ [][Progress(pc', idx') > Progress(pc, idx)]_vars
    /\ [][PathRank(pc') >= PathRank(pc)]_vars
    /\ [][(pc = "gasless_loop" \/ pc = "onchain_submit"
             \/ (pc = "onchain_loop" /\ pc' = "onchain_loop"))
            => idx' = idx + 1]_vars
    /\ [](\A cid \in GroupIds :
            /\ Cardinality({r \in RedeemCalls : calls[r].condition_id = cid}) <= 1
            /\ Cardinality({q \in AllPriceReads : calls[q].condition_id = cid}) <= 1)
    /\ [](pc = "done" => result.kind \in {"return", "raise"})

\* a run over two groups went through both paths, failed on every group in
\* each, and returned
C38_Witness ==
    /\ Ended
    /\ Len(grouped) = 2
    /\ Len(Redeems) = 2
    /\ Cardinality(AllPriceReads) = 2
    /\ Len(result.failed) = 4

====
